---- MODULE Spec2Model ----
(***************************************************************************)
(* Payment order lifecycle and multi-gateway settlement of PopGraph        *)
(* (backend/app/services/payment_service.py, payment_gateway.py and        *)
(* backend/app/api/payment.py), and the expiry of memberships              *)
(* (backend/app/services/membership_service.py, backend/app/tasks/         *)
(* scheduler.py); the daily generation quota (backend/app/utils/           *)
(* rate_limiter.py, backend/app/api/poster.py); verification codes         *)
(* (backend/app/services/sms_service.py) and accounts and refresh tokens   *)
(* (backend/app/services/auth_service.py, backend/app/utils/jwt.py).       *)
(*                                                                         *)
(* The payment clock counts minutes, the clock of the SMS and              *)
(* authentication services half seconds.  A datetime that is None is       *)
(* NoneT, a str that is None is NoneS.  Every operation of a service is    *)
(* one action: the service methods run without awaiting, and the payment   *)
(* handlers are coroutines that await only the request body, so a handler  *)
(* body runs to completion on the event loop once the body has been read.  *)
(* The poster handler awaits the generation between the quota check and    *)
(* the count, which are two actions.                                       *)
(***************************************************************************)
EXTENDS Integers, FiniteSets, Sequences, TLC

\* ------------------------------------------------------------------ bounds
MaxTicks == 2
HistCap == 2
MaxInflight == 2
\* the generation requests of one user that are under way at once
MaxPending == 6
\* the times the clock of the SMS service is advanced
MaxSmsTicks == 2
\* the refresh tokens issued
MaxTokens == 2

\* ------------------------------------------------------- program constants
ORDER_EXPIRY_MINUTES == 30
MinutesPerDay == 1440

\* the clock advances by one expiry window at a time: an order is read at
\* its creation, exactly at the end of its window, and past it
TickStep == ORDER_EXPIRY_MINUTES

NoneT == -1
NoneS == "None"

\* datetime.max, the last instant a datetime holds (scaled to the model's
\* clock): a timedelta added to a datetime must not pass it
DATETIME_MAX == 2000000000

Users == {"u1", "u2"}
NoUser == "NoUser"
\* the users who buy; the others only hold a membership
Buyers == {"u1"}

\* uuid4 order ids, in the order they are issued
OrderIdSeq == <<"o1", "o2">>
OrderIds == {OrderIdSeq[i] : i \in 1..Len(OrderIdSeq)}
\* an id no order has (an unknown id, or the "" of a payload without the field)
UnknownId == ""

\* the gateways' own order numbers
ExtIds == {"t1"}

MembershipTier == {"free", "basic", "professional"}
PaymentStatus == {"pending", "paid", "failed", "expired", "refunded"}
PaymentMethod == {"alipay", "wechat", "unionpay"}
SubscriptionPlan == {"basic_monthly", "basic_yearly", "pro_monthly", "pro_yearly"}
\* the plans the modelled clients buy
PlansOffered == {"basic_monthly", "pro_yearly"}

PLAN_PRICES ==
  [p \in SubscriptionPlan |->
     CASE p = "basic_monthly" -> 2900
       [] p = "basic_yearly" -> 29900
       [] p = "pro_monthly" -> 9900
       [] p = "pro_yearly" -> 99900]

PLAN_TIERS ==
  [p \in SubscriptionPlan |->
     IF p \in {"basic_monthly", "basic_yearly"} THEN "basic" ELSE "professional"]

PLAN_DURATIONS ==
  [p \in SubscriptionPlan |->
     IF p \in {"basic_monthly", "pro_monthly"} THEN 30 ELSE 365]

VARIABLES
  now,        \* datetime.now(timezone.utc), in minutes
  orders,     \* PaymentService._orders: order id -> PaymentOrder
  users,      \* the User objects: user id -> membership fields
  settings,   \* app.core.config.settings, the part the gateways read
  last,       \* the last operation: what was called and what it returned
  hist,       \* per order: what has happened to it so far (history)
  inflight,   \* the callback requests whose body is being read
  checking,   \* the expiry check of the scheduler, while it is under way
  quota,      \* the RateLimiter's storage and the generations under way
  sms,        \* SMSService: its clock and what it keeps per phone number
  auth        \* AuthService: the users by phone and the refresh tokens

vars == <<now, orders, users, settings, last, hist, inflight, checking,
          quota, sms, auth>>

\* ---------------------------------------------------------------- orders
\* every order priced as the first plan of the catalog
NewOrder_FirstPlanPrice(user_id, plan, method, t) ==
  [user_id |-> user_id, plan |-> plan, method |-> method,
   amount |-> PLAN_PRICES["basic_monthly"], status |-> "pending",
   external_order_id |-> NoneS, paid_at |-> NoneT,
   created_at |-> t]

\* PaymentService.create_order: the PaymentOrder it builds
NewOrder(user_id, plan, method, t) ==
  [user_id |-> user_id, plan |-> plan, method |-> method,
   amount |-> PLAN_PRICES[plan], status |-> "pending",
   external_order_id |-> NoneS, paid_at |-> NoneT,
   created_at |-> t]

\* the same id for every order
FreshOrderId_FirstId(os) == OrderIdSeq[1]

\* str(uuid.uuid4()): an id no order has yet
FreshOrderId(os) == OrderIdSeq[Cardinality(DOMAIN os) + 1]

create_order(os, t, user_id, plan, method) ==
  LET order_id == FreshOrderId(os) IN
  [orders |-> [o \in DOMAIN os \cup {order_id} |->
                 IF o = order_id THEN NewOrder(user_id, plan, method, t) ELSE os[o]],
   order_id |-> order_id]

\* the window taken in seconds where the clock counts minutes
is_order_expired_WindowInSeconds(order, t) ==
  IF order.status # "pending"
  THEN FALSE
  ELSE t > order.created_at + ORDER_EXPIRY_MINUTES * 60

\* the age of the order alone, whatever its status
is_order_expired_IgnoresStatus(order, t) ==
  t > order.created_at + ORDER_EXPIRY_MINUTES

is_order_expired(order, t) ==
  IF order.status # "pending"
  THEN FALSE
  ELSE t > order.created_at + ORDER_EXPIRY_MINUTES

\* the time of the update is written over the time of creation
update_order_status_RestampsCreation(order, new_status, t) ==
  [order EXCEPT !.status = new_status, !.created_at = t]

\* (updated_at, which no operation reads, is left out of the order)
update_order_status(order, new_status, t) ==
  [order EXCEPT !.status = new_status]

\* self._orders.get(order_id): the order object as it is stored, or None
get_order(os, order_id) ==
  IF order_id \in DOMAIN os THEN <<os[order_id].status>> ELSE <<>>

\* self._orders_by_user[user_id]: the user's order ids as they were created
UserOrderIds(os, user_id) ==
  SelectSeq(OrderIdSeq, LAMBDA o : o \in DOMAIN os /\ os[o].user_id = user_id)

\* sorted(orders, key=created_at, reverse=True), which keeps the order of
\* equal keys
RECURSIVE SortNewestFirst(_, _)
SortNewestFirst(os, ids) ==
  IF ids = <<>>
  THEN <<>>
  ELSE LET h == Head(ids)
           rest == SortNewestFirst(os, Tail(ids))
       IN SelectSeq(rest, LAMBDA o : os[o].created_at > os[h].created_at)
          \o <<h>>
          \o SelectSeq(rest, LAMBDA o : os[o].created_at <= os[h].created_at)

\* the user's stored orders, those of one status when a filter is given
\* (NoneS: no filter), newest first; the ids of the objects returned
get_user_orders(os, user_id, status) ==
  SortNewestFirst(os,
    SelectSeq(UserOrderIds(os, user_id),
              LAMBDA o : status = NoneS \/ os[o].status = status))

\* get_order_or_raise, then the read-time correction of a PENDING order
get_order_status(os, t, order_id) ==
  IF order_id \notin DOMAIN os
  THEN [orders |-> os, error |-> "OrderNotFoundError", status |-> NoneS]
  ELSE LET order == os[order_id]
           after == IF order.status = "pending" /\ is_order_expired(order, t)
                    THEN update_order_status(order, "expired", t)
                    ELSE order
       IN [orders |-> [os EXCEPT ![order_id] = after],
           error |-> "None", status |-> after.status]

\* the order is marked, the gateway's reference is not kept
mark_order_paid_DropsExternalId(os, t, order_id, external_order_id) ==
  IF order_id \notin DOMAIN os
  THEN [orders |-> os, error |-> "OrderNotFoundError"]
  ELSE IF is_order_expired(os[order_id], t)
  THEN [orders |-> [os EXCEPT ![order_id] = update_order_status(@, "expired", t)],
        error |-> "OrderExpiredError"]
  ELSE IF os[order_id].status # "pending"
  THEN [orders |-> os, error |-> "InvalidOrderStatusError"]
  ELSE [orders |-> [os EXCEPT ![order_id] =
                      [@ EXCEPT !.status = "paid", !.paid_at = t]],
        error |-> "None"]

\* without the check that the order is still PENDING
mark_order_paid_NoStatusGuard(os, t, order_id, external_order_id) ==
  IF order_id \notin DOMAIN os
  THEN [orders |-> os, error |-> "OrderNotFoundError"]
  ELSE IF is_order_expired(os[order_id], t)
  THEN [orders |-> [os EXCEPT ![order_id] = update_order_status(@, "expired", t)],
        error |-> "OrderExpiredError"]
  ELSE [orders |-> [os EXCEPT ![order_id] =
                      [@ EXCEPT !.status = "paid",
                                !.external_order_id = external_order_id,
                                !.paid_at = t]],
        error |-> "None"]

\* the status and the external reference are written, paid_at is forgotten
mark_order_paid_NoPaidAt(os, t, order_id, external_order_id) ==
  IF order_id \notin DOMAIN os
  THEN [orders |-> os, error |-> "OrderNotFoundError"]
  ELSE IF is_order_expired(os[order_id], t)
  THEN [orders |-> [os EXCEPT ![order_id] = update_order_status(@, "expired", t)],
        error |-> "OrderExpiredError"]
  ELSE IF os[order_id].status # "pending"
  THEN [orders |-> os, error |-> "InvalidOrderStatusError"]
  ELSE [orders |-> [os EXCEPT ![order_id] =
                      [@ EXCEPT !.status = "paid",
                                !.external_order_id = external_order_id]],
        error |-> "None"]

mark_order_paid(os, t, order_id, external_order_id) ==
  IF order_id \notin DOMAIN os
  THEN [orders |-> os, error |-> "OrderNotFoundError"]
  ELSE IF is_order_expired(os[order_id], t)
  THEN [orders |-> [os EXCEPT ![order_id] = update_order_status(@, "expired", t)],
        error |-> "OrderExpiredError"]
  ELSE IF os[order_id].status # "pending"
  THEN [orders |-> os, error |-> "InvalidOrderStatusError"]
  ELSE [orders |-> [os EXCEPT ![order_id] =
                      [@ EXCEPT !.status = "paid",
                                !.external_order_id = external_order_id,
                                !.paid_at = t]],
        error |-> "None"]

\* an order that is not PENDING is handed back without an error
mark_order_failed_SilentOnTerminal(os, t, order_id) ==
  IF order_id \notin DOMAIN os
  THEN [orders |-> os, error |-> "OrderNotFoundError"]
  ELSE IF os[order_id].status # "pending"
  THEN [orders |-> os, error |-> "None"]
  ELSE [orders |-> [os EXCEPT ![order_id] = update_order_status(@, "failed", t)],
        error |-> "None"]

\* without the check that the order is still PENDING
mark_order_failed_NoStatusGuard(os, t, order_id) ==
  IF order_id \notin DOMAIN os
  THEN [orders |-> os, error |-> "OrderNotFoundError"]
  ELSE [orders |-> [os EXCEPT ![order_id] = update_order_status(@, "failed", t)],
        error |-> "None"]

\* the window is looked at first, as mark_order_paid does
mark_order_failed_ChecksWindow(os, t, order_id) ==
  IF order_id \notin DOMAIN os
  THEN [orders |-> os, error |-> "OrderNotFoundError"]
  ELSE IF is_order_expired(os[order_id], t)
  THEN [orders |-> [os EXCEPT ![order_id] = update_order_status(@, "expired", t)],
        error |-> "OrderExpiredError"]
  ELSE IF os[order_id].status # "pending"
  THEN [orders |-> os, error |-> "InvalidOrderStatusError"]
  ELSE [orders |-> [os EXCEPT ![order_id] = update_order_status(@, "failed", t)],
        error |-> "None"]

mark_order_failed(os, t, order_id) ==
  IF order_id \notin DOMAIN os
  THEN [orders |-> os, error |-> "OrderNotFoundError"]
  ELSE IF os[order_id].status # "pending"
  THEN [orders |-> os, error |-> "InvalidOrderStatusError"]
  ELSE [orders |-> [os EXCEPT ![order_id] = update_order_status(@, "failed", t)],
        error |-> "None"]

\* ------------------------------------------------------------ membership
\* always counted from now, whatever is left of the membership
calculate_membership_expiry_FromNow(plan, current_expiry, t) ==
  t + PLAN_DURATIONS[plan] * MinutesPerDay

\* counted from the old expiry even when it has passed
calculate_membership_expiry_AlwaysStacks(plan, current_expiry, t) ==
  LET duration_days == PLAN_DURATIONS[plan]
      base_date == IF current_expiry # NoneT THEN current_expiry ELSE t
  IN base_date + duration_days * MinutesPerDay

calculate_membership_expiry(plan, current_expiry, t) ==
  LET duration_days == PLAN_DURATIONS[plan]
      base_date == IF current_expiry # NoneT /\ current_expiry > t
                   THEN current_expiry
                   ELSE t
  IN base_date + duration_days * MinutesPerDay

\* a professional member keeps the tier when buying a basic plan
upgrade_user_membership_KeepsHigherTier(user, plan, t) ==
  [user EXCEPT !.membership_tier =
                  IF @ = "professional" THEN @ ELSE PLAN_TIERS[plan],
               !.membership_expiry =
                  calculate_membership_expiry(plan, user.membership_expiry, t)]

\* the tier is set, the expiry is left as it was
upgrade_user_membership_TierOnly(user, plan, t) ==
  [user EXCEPT !.membership_tier = PLAN_TIERS[plan]]

upgrade_user_membership(user, plan, t) ==
  [user EXCEPT !.membership_tier = PLAN_TIERS[plan],
               !.membership_expiry =
                  calculate_membership_expiry(plan, user.membership_expiry, t)]

\* base_date + timedelta(days=duration_days) raises OverflowError when the
\* sum is past datetime.max; nothing of the user has been assigned by then
UpgradeRaises(user, plan, t) ==
  calculate_membership_expiry(plan, user.membership_expiry, t) > DATETIME_MAX

\* without a user object, the owner of the order is looked up and upgraded
process_payment_success_UpgradesOwner(os, us, t, order_id, external_order_id, user) ==
  LET paid == mark_order_paid(os, t, order_id, external_order_id) IN
  IF paid.error # "None"
  THEN [orders |-> paid.orders, users |-> us, error |-> paid.error,
        paid |-> FALSE, upgraded |-> FALSE]
  ELSE LET owner == IF user # NoUser THEN user ELSE paid.orders[order_id].user_id IN
       IF UpgradeRaises(us[owner], paid.orders[order_id].plan, t)
       THEN [orders |-> paid.orders, users |-> us, error |-> "OverflowError",
             paid |-> TRUE, upgraded |-> FALSE]
       ELSE [orders |-> paid.orders,
             users |-> [us EXCEPT ![owner] =
                          upgrade_user_membership(@, paid.orders[order_id].plan, t)],
             error |-> "None", paid |-> TRUE, upgraded |-> user # NoUser]

\* on an upgrade that raises, the order is handed back as it was before the call
process_payment_success_RollsBack(os, us, t, order_id, external_order_id, user) ==
  LET paid == mark_order_paid(os, t, order_id, external_order_id) IN
  IF paid.error # "None"
  THEN [orders |-> paid.orders, users |-> us, error |-> paid.error,
        paid |-> FALSE, upgraded |-> FALSE]
  ELSE IF user # NoUser /\ UpgradeRaises(us[user], paid.orders[order_id].plan, t)
  THEN [orders |-> os, users |-> us, error |-> "OverflowError",
        paid |-> FALSE, upgraded |-> FALSE]
  ELSE IF user # NoUser
  THEN [orders |-> paid.orders,
        users |-> [us EXCEPT ![user] =
                     upgrade_user_membership(@, paid.orders[order_id].plan, t)],
        error |-> "None", paid |-> TRUE, upgraded |-> TRUE]
  ELSE [orders |-> paid.orders, users |-> us, error |-> "None",
        paid |-> TRUE, upgraded |-> FALSE]

\* mark_order_paid, then the upgrade of the user object when one is passed;
\* an exception of mark_order_paid propagates before the upgrade, and one of
\* the upgrade propagates with the order already written.  paid: whether
\* mark_order_paid returned
process_payment_success(os, us, t, order_id, external_order_id, user) ==
  LET paid == mark_order_paid(os, t, order_id, external_order_id) IN
  IF paid.error # "None"
  THEN [orders |-> paid.orders, users |-> us, error |-> paid.error,
        paid |-> FALSE, upgraded |-> FALSE]
  ELSE IF user # NoUser /\ UpgradeRaises(us[user], paid.orders[order_id].plan, t)
  THEN [orders |-> paid.orders, users |-> us, error |-> "OverflowError",
        paid |-> TRUE, upgraded |-> FALSE]
  ELSE IF user # NoUser
  THEN [orders |-> paid.orders,
        users |-> [us EXCEPT ![user] =
                     upgrade_user_membership(@, paid.orders[order_id].plan, t)],
        error |-> "None", paid |-> TRUE, upgraded |-> TRUE]
  ELSE [orders |-> paid.orders, users |-> us, error |-> "None",
        paid |-> TRUE, upgraded |-> FALSE]

\* -------------------------------------------------------------- gateways
\* A callback payload, with the gateways' field names folded into one shape:
\*   order_id  out_trade_no (alipay, wechat), orderId (unionpay)
\*   ext       trade_no, transaction_id, queryId
\*   status    trade_status, trade_state, respCode
\*   amount    total_amount, amount.total, txnAmt, as the gateway parses it
\*             into CallbackResult.amount (cents)
\*   sign      sign (alipay), the Wechatpay-Signature header, signature (unionpay)
SuccessCodes ==
  [m \in PaymentMethod |->
     CASE m = "alipay" -> {"TRADE_SUCCESS", "TRADE_FINISHED"}
       [] m = "wechat" -> {"SUCCESS"}
       [] m = "unionpay" -> {"00"}]

FailureCodes ==
  [m \in PaymentMethod |->
     CASE m = "alipay" -> {"TRADE_CLOSED"}
       [] m = "wechat" -> {"CLOSED"}
       [] m = "unionpay" -> {"01"}]

\* The signature the network computes over the fields of a payload: it is
\* determined by every signed field, so changing a field or the signature
\* breaks the match.  <<>> is a payload without the field.
NetworkSign(method, order_id, status, ext, amount) ==
  <<method, order_id, status, ext, ToString(amount)>>
NoSign == <<>>
ForgedSign == <<"forged">>

SignatureGenuine(method, data) ==
  data.sign = NetworkSign(method, data.order_id, data.status, data.ext,
                          data.amount)

\* the signature field of a delivered payload: missing, tampered or genuine
SignChoices(method, order_id, status, ext, amount) ==
  {NoSign, ForgedSign, NetworkSign(method, order_id, status, ext, amount)}

\* the amount a delivered payload reports, in cents (total_amount, amount.total,
\* txnAmt): the price of the monthly basic plan, which is the amount of some
\* orders and not of others
CallbackAmounts == {PLAN_PRICES["basic_monthly"]}

Payloads(method, ids) ==
  UNION {{[order_id |-> o, status |-> st, ext |-> e, amount |-> a, sign |-> sg] :
            sg \in SignChoices(method, o, st, e, a)} :
         o \in ids,
         st \in SuccessCodes[method] \cup FailureCodes[method],
         e \in ExtIds,
         a \in CallbackAmounts}

CallbackFailed(msg) ==
  [success |-> FALSE, order_id |-> NoneS, external_order_id |-> NoneS,
   amount |-> NoneT, error_message |-> msg]

CallbackVerified(data) ==
  [success |-> TRUE, order_id |-> data.order_id, external_order_id |-> data.ext,
   amount |-> data.amount, error_message |-> NoneS]

\* AlipayGateway._verify_sign: without a configured public key every
\* signature passes; with one, the RSA2 check, where any exception (the
\* Crypto import, the key, the base64 of the signature) means False
AlipayVerifySign(cfg, data, crypto_ok) ==
  IF ~cfg.alipay_public_key
  THEN TRUE
  ELSE crypto_ok /\ SignatureGenuine("alipay", data)

AlipayVerifyCallback(cfg, data, crypto_ok) ==
  IF ~AlipayVerifySign(cfg, data, crypto_ok)
  THEN CallbackFailed("Invalid signature")
  ELSE IF data.status \notin {"TRADE_SUCCESS", "TRADE_FINISHED"}
  THEN CallbackFailed("Trade not successful")
  ELSE CallbackVerified(data)

\* WeChatPayGateway.verify_callback reads no signature at all
WeChatVerifyCallback(data) ==
  IF data.status # "SUCCESS"
  THEN CallbackFailed("Trade not successful")
  ELSE CallbackVerified(data)

\* UnionPayGateway._verify_sign
UnionPayVerifySign(data) == TRUE

UnionPayVerifyCallback(data) ==
  IF ~UnionPayVerifySign(data)
  THEN CallbackFailed("Invalid signature")
  ELSE IF data.status # "00"
  THEN CallbackFailed("Payment failed")
  ELSE CallbackVerified(data)

\* PaymentService.verify_callback: get_payment_gateway(method).verify_callback(data)
verify_callback(cfg, method, data, crypto_ok) ==
  CASE method = "alipay" -> AlipayVerifyCallback(cfg, data, crypto_ok)
    [] method = "wechat" -> WeChatVerifyCallback(data)
    [] method = "unionpay" -> UnionPayVerifyCallback(data)

\* a rejected callback fails the order it names
process_callback_FailsOrderOnReject(os, us, t, cfg, method, data, user, crypto_ok) ==
  LET result == verify_callback(cfg, method, data, crypto_ok) IN
  IF ~result.success
  THEN [orders |-> mark_order_failed(os, t, data.order_id).orders, users |-> us,
        success |-> FALSE,
        error |-> result.error_message, verified |-> FALSE, paid |-> FALSE,
        upgraded |-> FALSE]
  ELSE LET done == process_payment_success(os, us, t, result.order_id,
                                           result.external_order_id, user)
       IN [orders |-> done.orders, users |-> done.users,
           success |-> done.error = "None",
           error |-> done.error, verified |-> TRUE, paid |-> done.paid,
           upgraded |-> done.upgraded]

\* PaymentService.process_callback: (success, order, error_message), with the
\* stores as it leaves them
process_callback(os, us, t, cfg, method, data, user, crypto_ok) ==
  LET result == verify_callback(cfg, method, data, crypto_ok) IN
  IF ~result.success
  THEN [orders |-> os, users |-> us, success |-> FALSE,
        error |-> result.error_message, verified |-> FALSE, paid |-> FALSE,
        upgraded |-> FALSE]
  ELSE LET done == process_payment_success(os, us, t, result.order_id,
                                           result.external_order_id, user)
       IN [orders |-> done.orders, users |-> done.users,
           success |-> done.error = "None",
           error |-> done.error, verified |-> TRUE, paid |-> done.paid,
           upgraded |-> done.upgraded]

\* ------------------------------------------------- subscription expiry
\* a paid tier whose expiry lies in the past; a paid tier without an expiry
\* does not expire
is_subscription_expired_AtExpiry(user, t) ==
  /\ user.membership_tier # "free"
  /\ user.membership_expiry # NoneT
  /\ t >= user.membership_expiry

is_subscription_expired(user, t) ==
  IF user.membership_tier = "free"
  THEN FALSE
  ELSE IF user.membership_expiry = NoneT
  THEN FALSE
  ELSE t > user.membership_expiry

\* the user after the call, and what the call returns
check_and_downgrade_if_expired(user, t) ==
  IF ~is_subscription_expired(user, t)
  THEN [user |-> user, result |-> FALSE]
  ELSE [user |-> [user EXCEPT !.membership_tier = "free"], result |-> TRUE]

\* the BASIC users are left out of the check
PaidUsers_ProfessionalOnly(us) ==
  {u \in DOMAIN us : us[u].membership_tier = "professional"}

\* select(User).where(User.membership_tier.in_([BASIC, PROFESSIONAL])): the
\* rows the session loads, as they are when the statement runs
PaidUsers(us) == {u \in DOMAIN us : us[u].membership_tier \in {"basic", "professional"}}

\* the loop over the loaded rows and the commit: a row that is_subscription_
\* expired as it was loaded is written back with membership_tier FREE (the
\* UPDATE carries the columns the loop assigned, not membership_expiry);
\* the call returns the number of rows it downgraded
run_subscription_expiry_check(us, rows, t) ==
  LET downgraded == {u \in PaidUsers(rows) : is_subscription_expired(rows[u], t)} IN
  [users |-> [u \in DOMAIN us |->
                IF u \in downgraded
                THEN [us[u] EXCEPT !.membership_tier = "free"]
                ELSE us[u]],
   downgraded_count |-> Cardinality(downgraded)]

\* ------------------------------------------------- payment initiation
\* PaymentResult: success, what the client is sent to (payment_url or
\* qrcode_content), error_message
PaymentFailed(msg) == <<"false", NoneS, msg>>
PaymentCreated(kind) == <<"true", kind, NoneS>>

\* a private key setting: not set, a PEM key, or text that is no key
KeySettings == {"", "pem", "malformed"}

\* AlipayGateway._sign: without a private key a sha256 digest stands in for
\* the signature; with one, RSA.import_key raises ValueError on text that is
\* no key, and only an ImportError (no Crypto package in the build) falls back
\* to the digest
SignOutcomes(private_key) ==
  CASE private_key = "" -> {"digest"}
    [] private_key = "pem" -> {"signature", "digest"}
    [] private_key = "malformed" -> {"ValueError", "digest"}

\* each call returns or raises: error is the exception, result the
\* PaymentResult
AlipayCreatePayment(cfg, signed) ==
  IF ~cfg.alipay_app_id
  THEN [error |-> "None",
        result |-> PaymentFailed("Alipay not configured: missing app_id")]
  ELSE IF signed = "ValueError"
  THEN [error |-> "ValueError", result |-> <<>>]
  ELSE [error |-> "None", result |-> PaymentCreated("payment_url")]

WeChatCreatePayment(cfg) ==
  IF ~cfg.wechat_app_id \/ ~cfg.wechat_mch_id
  THEN [error |-> "None",
        result |-> PaymentFailed("WeChat Pay not configured: missing app_id or mch_id")]
  ELSE [error |-> "None", result |-> PaymentCreated("qrcode_content")]

UnionPayCreatePayment(cfg) ==
  IF ~cfg.unionpay_merchant_id
  THEN [error |-> "None",
        result |-> PaymentFailed("UnionPay not configured: missing merchant_id")]
  ELSE [error |-> "None", result |-> PaymentCreated("payment_url")]

\* get_payment_gateway(order.method).create_payment(request)
get_payment_url(cfg, method, signed) ==
  CASE method = "alipay" -> AlipayCreatePayment(cfg, signed)
    [] method = "wechat" -> WeChatCreatePayment(cfg)
    [] method = "unionpay" -> UnionPayCreatePayment(cfg)

\* an order whose payment could not be initiated is taken out of the store
create_order_with_payment_RollsBack(os, t, cfg, user_id, plan, method, signed) ==
  LET created == create_order(os, t, user_id, plan, method)
      payment_result == get_payment_url(cfg, method, signed)
      ok == payment_result.error = "None" /\ payment_result.result[1] = "true"
  IN [orders |-> IF ok THEN created.orders ELSE os,
      order_id |-> created.order_id,
      error |-> payment_result.error, result |-> payment_result.result]

\* the order is stored, then the payment is initiated; an exception of the
\* gateway leaves the order stored
create_order_with_payment(os, t, cfg, user_id, plan, method, signed) ==
  LET created == create_order(os, t, user_id, plan, method)
      payment_result == get_payment_url(cfg, method, signed)
  IN [orders |-> created.orders, order_id |-> created.order_id,
      error |-> payment_result.error, result |-> payment_result.result]

\* --------------------------------------------------- verification codes
\* The SMS service compares datetimes, which resolve fractions of a second:
\* its clock counts half seconds.
HalfSecondsPerSecond == 2
RATE_LIMIT_SECONDS == 60
CODE_EXPIRY_MINUTES == 5

\* the clock advances by half a second or by 59.5 seconds
SmsSteps == {1, RATE_LIMIT_SECONDS * HalfSecondsPerSecond - 1}

\* VerificationCodeData, or none stored for the phone
NoCode == [code |-> NoneS, expires_at |-> NoneT, is_used |-> FALSE]

\* phone numbers that match PHONE_PATTERN
Phones == {"p1", "p2"}

\* generate_code: six random digits
Codes == {"111111", "222222"}

\* int(x) of a float: the fraction is dropped, toward zero
IntOfHalves(halves) ==
  IF halves >= 0
  THEN halves \div HalfSecondsPerSecond
  ELSE -((-halves) \div HalfSecondsPerSecond)

is_rate_limited(s, phone, current_time) ==
  LET last_send == s.last_send_time[phone] IN
  IF last_send = NoneT
  THEN FALSE
  ELSE current_time - last_send < RATE_LIMIT_SECONDS * HalfSecondsPerSecond

get_cooldown_remaining(s, phone, current_time) ==
  LET last_send == s.last_send_time[phone] IN
  IF last_send = NoneT
  THEN 0
  ELSE LET remaining == RATE_LIMIT_SECONDS * HalfSecondsPerSecond
                          - (current_time - last_send)
           whole == IntOfHalves(remaining)
       IN IF whole > 0 THEN whole ELSE 0

\* SendCodeResult: success, cooldown_remaining; code is the code generated
\* and sent the answer of the provider
send_code(s, phone, current_time, code, sent) ==
  IF is_rate_limited(s, phone, current_time)
  THEN [sms |-> s, success |-> FALSE,
        cooldown_remaining |-> get_cooldown_remaining(s, phone, current_time)]
  ELSE [sms |-> [s EXCEPT
                   !.codes[phone] =
                      [code |-> code,
                       expires_at |-> current_time
                          + CODE_EXPIRY_MINUTES * 60 * HalfSecondsPerSecond,
                       is_used |-> FALSE],
                   !.last_send_time[phone] = current_time],
        success |-> sent, cooldown_remaining |-> 0]

verify_code(s, phone, code, current_time) ==
  LET stored == s.codes[phone] IN
  IF stored = NoCode
  THEN [sms |-> s, success |-> FALSE]
  ELSE IF stored.is_used
  THEN [sms |-> s, success |-> FALSE]
  ELSE IF current_time > stored.expires_at
  THEN [sms |-> s, success |-> FALSE]
  ELSE IF stored.code # code
  THEN [sms |-> s, success |-> FALSE]
  ELSE [sms |-> [s EXCEPT !.codes[phone].is_used = TRUE], success |-> TRUE]

\* -------------------------------------------------------- authentication
refresh_token_expire_days == 7
SecondsPerDay == 86400

\* a phone number PHONE_PATTERN does not match
InvalidPhone == "12"
PhoneInputs == Phones \cup {InvalidPhone}

\* a string that is not a refresh token signed by the service
InvalidToken == 0
NoUserId == 0

validate_phone(phone) == phone \in Phones

is_phone_registered_Never(a, phone) == FALSE

is_phone_registered(a, phone) == a.users_by_phone[phone] # NoUserId

\* exp of a new refresh token: the claim holds whole seconds
create_refresh_token(t) ==
  (t \div HalfSecondsPerSecond) * HalfSecondsPerSecond
    + refresh_token_expire_days * SecondsPerDay * HalfSecondsPerSecond

\* the error verify_refresh_token raises for the token, "None" if it
\* returns the payload
verify_refresh_token(a, token, t) ==
  IF token \notin 1..Len(a.refresh_tokens)
  THEN "InvalidTokenError"
  ELSE IF a.refresh_tokens[token].expires_at <= t
  THEN "TokenExpiredError"
  ELSE "None"

create_user(a, phone) ==
  [a EXCEPT !.users = Append(@, [phone |-> phone, membership_tier |-> "free",
                                 membership_expiry |-> NoneT]),
            !.users_by_phone[phone] = Len(a.users) + 1]

create_and_store_tokens(a, user_id, t) ==
  [a EXCEPT !.refresh_tokens =
     Append(@, [user_id |-> user_id, expires_at |-> create_refresh_token(t),
                is_revoked |-> FALSE])]

is_refresh_token_valid_IgnoresRevocation(a, token, t) ==
  /\ token \in 1..Len(a.refresh_tokens)
  /\ t <= a.refresh_tokens[token].expires_at

is_refresh_token_valid(a, token, t) ==
  IF token \notin 1..Len(a.refresh_tokens)
  THEN FALSE
  ELSE IF a.refresh_tokens[token].is_revoked
  THEN FALSE
  ELSE IF t > a.refresh_tokens[token].expires_at
  THEN FALSE
  ELSE TRUE

revoke_refresh_token_Forgets(a, token) ==
  [auth |-> a, revoked |-> token \in 1..Len(a.refresh_tokens)]

revoke_refresh_token(a, token) ==
  IF token \notin 1..Len(a.refresh_tokens)
  THEN [auth |-> a, revoked |-> FALSE]
  ELSE IF a.refresh_tokens[token].is_revoked
  THEN [auth |-> a, revoked |-> FALSE]
  ELSE [auth |-> [a EXCEPT !.refresh_tokens[token].is_revoked = TRUE],
        revoked |-> TRUE]

register_with_phone(a, s, phone, code, t) ==
  IF ~validate_phone(phone)
  THEN [auth |-> a, sms |-> s, error |-> "InvalidPhoneFormatError"]
  ELSE IF is_phone_registered(a, phone)
  THEN [auth |-> a, sms |-> s, error |-> "PhoneAlreadyExistsError"]
  ELSE LET v == verify_code(s, phone, code, t) IN
       IF ~v.success
       THEN [auth |-> a, sms |-> v.sms,
             error |-> "InvalidVerificationCodeError"]
       ELSE LET created == create_user(a, phone) IN
            [auth |-> create_and_store_tokens(created, Len(created.users), t),
             sms |-> v.sms, error |-> "None"]

login_with_phone(a, s, phone, code, t) ==
  IF ~validate_phone(phone)
  THEN [auth |-> a, sms |-> s, error |-> "InvalidPhoneFormatError"]
  ELSE IF a.users_by_phone[phone] = NoUserId
  THEN [auth |-> a, sms |-> s, error |-> "UserNotFoundError"]
  ELSE LET v == verify_code(s, phone, code, t) IN
       IF ~v.success
       THEN [auth |-> a, sms |-> v.sms,
             error |-> "InvalidVerificationCodeError"]
       ELSE [auth |-> create_and_store_tokens(a, a.users_by_phone[phone], t),
             sms |-> v.sms, error |-> "None"]

refresh_token(a, token, t) ==
  LET verified == verify_refresh_token(a, token, t) IN
  IF verified # "None"
  THEN [auth |-> a, error |-> verified]
  ELSE IF ~is_refresh_token_valid(a, token, t)
  THEN [auth |-> a, error |-> "TokenRevokedError"]
  ELSE LET revoked == revoke_refresh_token(a, token).auth IN
       [auth |-> create_and_store_tokens(
                   revoked, a.refresh_tokens[token].user_id, t),
        error |-> "None"]

logout(a, token, t) ==
  IF verify_refresh_token(a, token, t) = "InvalidTokenError"
  THEN [auth |-> a, revoked |-> FALSE]
  ELSE revoke_refresh_token(a, token)

\* --------------------------------------------------------- daily quota
\* RATE_LIMIT_CONFIG[tier]["daily_limit"]; -1 is no limit
RATE_LIMIT_CONFIG ==
  [tier \in MembershipTier |->
     CASE tier = "free" -> 5
       [] tier = "basic" -> 100
       [] tier = "professional" -> -1]

\* RateLimiter._get_user_key: the user and the UTC date
UserKey(user_id, t) == <<user_id, t \div MinutesPerDay>>

\* InMemoryStorage._cleanup_expired: a key expires at the midnight that
\* follows its date
CleanupExpired(data, t) ==
  [k \in {k \in DOMAIN data : k[2] >= t \div MinutesPerDay} |-> data[k]]

\* storage.get(key), read as int(...) if there is a value, else 0
StorageGet(data, t, key) ==
  LET kept == CleanupExpired(data, t) IN
  IF key \in DOMAIN kept THEN kept[key] ELSE 0

\* storage.incr(key)
StorageIncr(data, t, key) ==
  LET kept == CleanupExpired(data, t) IN
  [k \in DOMAIN kept \cup {key} |->
     IF k = key THEN StorageGet(data, t, key) + 1 ELSE kept[k]]

\* RateLimitResult: allowed, remaining_quota
check_limit(data, t, user_id, tier) ==
  LET daily_limit == RATE_LIMIT_CONFIG[tier]
      current_count == StorageGet(data, t, UserKey(user_id, t))
  IN IF daily_limit = -1
     THEN [allowed |-> TRUE, remaining_quota |-> -1]
     ELSE IF current_count >= daily_limit
     THEN [allowed |-> FALSE, remaining_quota |-> 0]
     ELSE [allowed |-> TRUE, remaining_quota |-> daily_limit - current_count]

increment_usage(data, t, user_id) == StorageIncr(data, t, UserKey(user_id, t))

\* ------------------------------------------------------------ the API
\* HTTPException(status_code=404, detail={"code": ORDER_NOT_FOUND,
\* "message": ...}): the status code and the code of the detail; the message
\* is the same literal wherever the handlers raise it
HTTPNotFound == <<"404", "ORDER_NOT_FOUND">>

\* OrderStatusResponse(order_id, status, paid_at), answered with 200
OrderStatusResponse(order_id, status, paid_at) ==
  <<"200", order_id, status, ToString(paid_at)>>

\* the owner is looked at once the status has been brought up to date
api_get_order_status_ChecksOwnerLast(os, t, order_id, current_user) ==
  LET r == get_order_status(os, t, order_id) IN
  IF r.error # "None" \/ os[order_id].user_id # current_user
  THEN [orders |-> r.orders, error |-> "HTTP_404_NOT_FOUND",
        response |-> HTTPNotFound]
  ELSE [orders |-> r.orders, error |-> "None",
        response |-> OrderStatusResponse(order_id, r.status,
                                         r.orders[order_id].paid_at)]

\* POST /api/payment/create-order for the authenticated current_user: an
\* exception of the service is answered with 500, a PaymentResult without
\* success with 400 PAYMENT_FAILED, else the order and where to pay
api_create_order(os, t, cfg, current_user, plan, method, signed) ==
  LET r == create_order_with_payment(os, t, cfg, current_user, plan, method,
                                     signed) IN
  IF r.error # "None"
  THEN [orders |-> r.orders, order_id |-> r.order_id,
        error |-> "HTTP_500_INTERNAL_SERVER_ERROR", response |-> <<"500">>]
  ELSE IF r.result[1] # "true"
  THEN [orders |-> r.orders, order_id |-> r.order_id,
        error |-> "HTTP_400_BAD_REQUEST",
        response |-> <<"400", "PAYMENT_FAILED", r.result[3]>>]
  ELSE [orders |-> r.orders, order_id |-> r.order_id, error |-> "None",
        response |-> <<"200", r.order_id, r.orders[r.order_id].status,
                       r.result[2]>>]

\* GET /api/payment/orders/{order_id} for the authenticated current_user
api_get_order_status(os, t, order_id, current_user) ==
  IF order_id \notin DOMAIN os
  THEN [orders |-> os, error |-> "HTTP_404_NOT_FOUND", response |-> HTTPNotFound]
  ELSE IF os[order_id].user_id # current_user
  THEN [orders |-> os, error |-> "HTTP_404_NOT_FOUND", response |-> HTTPNotFound]
  ELSE LET r == get_order_status(os, t, order_id) IN
       [orders |-> r.orders, error |-> "None",
        response |-> OrderStatusResponse(order_id, r.status,
                                         r.orders[order_id].paid_at)]

\* ---------------------------------------------------------------- state
NoOrders == [o \in {} |-> NoneS]

NewUser == [membership_tier |-> "free", membership_expiry |-> NoneT]

\* last: the operation that ran last, the order id it was given, and the
\* exception it raised or, for a callback, the error_message it returned
\* result: what the caller is handed, as a tuple of strings (none here)
Did(op, order_id, error) ==
  [op |-> op, order_id |-> order_id, error |-> error, result |-> <<>>]

\* an operation whose caller is handed a result
Read(op, order_id, error, result) ==
  [op |-> op, order_id |-> order_id, error |-> error, result |-> result]

\* called: mark_order_paid has been called on the order; paid_ok: how many of
\* the calls returned; upgrades: how many of them upgraded a user; before:
\* the membership of that user when the upgrade began
NoMembership == [membership_tier |-> NoneS, membership_expiry |-> NoneT]
NoHistory ==
  [called |-> FALSE, paid_ok |-> 0, upgrades |-> 0, before |-> NoMembership]

Bump(n) == IF n < HistCap THEN n + 1 ELSE n

\* the history of an order after a call of mark_order_paid on it that
\* returned (paid) or raised, followed or not by an upgrade of `before`
Recorded(h, os, order_id, paid, upgraded, before) ==
  IF order_id \notin DOMAIN os
  THEN h
  ELSE [h EXCEPT ![order_id] =
          [called |-> TRUE,
           paid_ok |-> IF paid THEN Bump(@.paid_ok) ELSE @.paid_ok,
           upgrades |-> IF upgraded THEN Bump(@.upgrades) ELSE @.upgrades,
           before |-> IF upgraded THEN before ELSE @.before]]

\* the user object a caller has at hand for an order: its owner, or none
UserArgs(os, order_id) ==
  {NoUser} \cup (IF order_id \in DOMAIN os THEN {os[order_id].user_id} ELSE {})

\* the user object passed to process_callback by a caller that has one
OwnerArgs(os, order_id) ==
  IF order_id \in DOMAIN os THEN {os[order_id].user_id} ELSE {NoUser}

\* checking: whether run_subscription_expiry_check is under way, and the
\* rows its session has loaded
NoCheck == [running |-> FALSE, rows |-> [u \in Users |-> NoMembership]]

\* quota: the counters of the storage, and per user the generation requests
\* that have passed check_rate_limit and await the poster service
NoQuota == [data |-> [k \in {} |-> 0], pending |-> [u \in Users |-> 0]]

\* the phone numbers of the modelled clients (all of a valid format)
\* sms: the clock of the SMS service, in half seconds, how often it has
\* advanced, the codes and the times of the last send per phone
NoSms ==
  [clock |-> 0, ticks |-> 0,
   codes |-> [p \in Phones |-> NoCode],
   last_send_time |-> [p \in Phones |-> NoneT]]

\* auth: _users, by id (ids count from 1); _users_by_phone (NoUserId: not
\* registered); _refresh_tokens, by token (every token carries a jti of its
\* own: tokens count from 1); logged_out: the tokens logout was called with
NoAuth ==
  [users |-> <<>>,
   users_by_phone |-> [p \in Phones |-> NoUserId],
   refresh_tokens |-> <<>>,
   logged_out |-> {}]

Init ==
  /\ now = 0
  /\ orders = NoOrders
  /\ users = [u \in Users |-> NewUser]
  /\ settings \in {[alipay_public_key |-> b] : b \in BOOLEAN}
  /\ last = Did("init", NoneS, "None")
  /\ hist = [o \in OrderIds |-> NoHistory]
  /\ inflight = <<>>
  /\ checking = NoCheck
  /\ quota = NoQuota
  /\ sms = NoSms
  /\ auth = NoAuth

Tick ==
  /\ now + TickStep <= MaxTicks * TickStep
  /\ now' = now + TickStep
  /\ last' = Did("tick", NoneS, "None")
  /\ UNCHANGED <<orders, users, settings, hist, inflight, checking, quota, sms, auth>>

CreateOrder(capacity, user_id, plan, method) ==
  /\ Cardinality(DOMAIN orders) < capacity
  /\ LET r == create_order(orders, now, user_id, plan, method) IN
       /\ orders' = r.orders
       /\ last' = Did("create_order", r.order_id, "None")
  /\ UNCHANGED <<now, users, settings, hist, inflight, checking, quota, sms, auth>>

GetOrderStatus(order_id) ==
  /\ LET r == get_order_status(orders, now, order_id) IN
       /\ orders' = r.orders
       /\ last' = Read("get_order_status", order_id, r.error,
                       IF r.error = "None" THEN <<r.status>> ELSE <<>>)
  /\ UNCHANGED <<now, users, settings, hist, inflight, checking, quota, sms, auth>>

GetOrder(order_id) ==
  /\ last' = Read("get_order", order_id, "None", get_order(orders, order_id))
  /\ UNCHANGED <<now, orders, users, settings, hist, inflight, checking, quota, sms, auth>>

GetUserOrders(user_id, status) ==
  /\ last' = Read("get_user_orders", NoneS, "None",
                  get_user_orders(orders, user_id, status))
  /\ UNCHANGED <<now, orders, users, settings, hist, inflight, checking, quota, sms, auth>>

\* the status endpoint, called by a user who is logged in
GetOrderStatusEndpoint(order_id, current_user) ==
  /\ LET r == api_get_order_status(orders, now, order_id, current_user) IN
       /\ orders' = r.orders
       /\ last' = Read("get_order_status_endpoint", order_id, r.error, r.response)
  /\ UNCHANGED <<now, users, settings, hist, inflight, checking, quota, sms, auth>>

CreateOrderWithPayment(capacity, user_id, plan, method, signed) ==
  /\ Cardinality(DOMAIN orders) < capacity
  /\ LET r == create_order_with_payment(orders, now, settings, user_id, plan,
                                        method, signed) IN
       /\ orders' = r.orders
       /\ last' = Read("create_order_with_payment", r.order_id, r.error, r.result)
  /\ UNCHANGED <<now, users, settings, hist, inflight, checking, quota, sms, auth>>

\* the create-order endpoint, called by a user who is logged in
CreateOrderEndpoint(capacity, current_user, plan, method, signed) ==
  /\ Cardinality(DOMAIN orders) < capacity
  /\ LET r == api_create_order(orders, now, settings, current_user, plan,
                               method, signed) IN
       /\ orders' = r.orders
       /\ last' = Read("create_order_endpoint", r.order_id, r.error, r.response)
  /\ UNCHANGED <<now, users, settings, hist, inflight, checking, quota, sms, auth>>

MarkOrderPaid(order_id, external_order_id) ==
  /\ LET r == mark_order_paid(orders, now, order_id, external_order_id) IN
       /\ orders' = r.orders
       /\ last' = Did("mark_order_paid", order_id, r.error)
       /\ hist' = Recorded(hist, orders, order_id, r.error = "None", FALSE,
                           NoMembership)
  /\ UNCHANGED <<now, users, settings, inflight, checking, quota, sms, auth>>

\* mark_order_failed, which process_payment_failure forwards to
MarkOrderFailed(order_id) ==
  /\ LET r == mark_order_failed(orders, now, order_id) IN
       /\ orders' = r.orders
       /\ last' = Did("mark_order_failed", order_id, r.error)
  /\ UNCHANGED <<now, users, settings, hist, inflight, checking, quota, sms, auth>>

ProcessPaymentSuccess(order_id, external_order_id, user) ==
  /\ LET r == process_payment_success(orders, users, now, order_id,
                                      external_order_id, user) IN
       /\ orders' = r.orders
       /\ users' = r.users
       /\ last' = Did("process_payment_success", order_id, r.error)
       /\ hist' = Recorded(hist, orders, order_id, r.paid, r.upgraded,
                           IF r.upgraded THEN users[user] ELSE NoMembership)
  /\ UNCHANGED <<now, settings, inflight, checking, quota, sms, auth>>

\* MembershipService.check_and_downgrade_if_expired(user)
CheckAndDowngrade(user) ==
  /\ LET r == check_and_downgrade_if_expired(users[user], now) IN
       /\ users' = [users EXCEPT ![user] = r.user]
       /\ last' = Read("check_and_downgrade_if_expired", user, "None",
                       <<IF r.result THEN "True" ELSE "False">>)
  /\ UNCHANGED <<now, orders, settings, hist, inflight, checking, quota, sms, auth>>

\* run_subscription_expiry_check up to the answer of its SELECT: the paid
\* users are loaded into the session
StartExpiryCheck ==
  /\ ~checking.running
  /\ checking' = [running |-> TRUE,
                  rows |-> [u \in Users |->
                              IF u \in PaidUsers(users) THEN users[u]
                              ELSE NoMembership]]
  /\ UNCHANGED <<now, orders, users, settings, last, hist, inflight, quota, sms, auth>>

\* the coroutine resumes: the loop over the loaded rows, then the commit
FinishExpiryCheck ==
  /\ checking.running
  /\ LET r == run_subscription_expiry_check(users, checking.rows, now) IN
       /\ users' = r.users
       /\ last' = Read("run_subscription_expiry_check", NoneS, "None",
                       <<ToString(r.downgraded_count)>>)
  /\ checking' = NoCheck
  /\ UNCHANGED <<now, orders, settings, hist, inflight, quota, sms, auth>>

\* POST /api/poster/generate up to the call of the poster service: the
\* dependency check_rate_limit answers 429 or lets the request through
CheckRateLimit(user_id) ==
  /\ quota.pending[user_id] < MaxPending
  /\ LET r == check_limit(quota.data, now, user_id, users[user_id].membership_tier) IN
       /\ quota' = IF r.allowed
                   THEN [quota EXCEPT !.pending[user_id] = @ + 1]
                   ELSE quota
       /\ last' = Read("check_rate_limit", user_id,
                       IF r.allowed THEN "None" ELSE "HTTP_429_TOO_MANY_REQUESTS",
                       <<ToString(r.remaining_quota)>>)
  /\ UNCHANGED <<now, orders, users, settings, hist, inflight, checking, sms, auth>>

\* the poster service has answered: the posters are returned and the usage
\* of the user is counted
GeneratePoster(user_id) ==
  /\ quota.pending[user_id] > 0
  /\ quota' = [data |-> increment_usage(quota.data, now, user_id),
               pending |-> [quota.pending EXCEPT ![user_id] = @ - 1]]
  /\ last' = Did("generate_poster", user_id, "None")
  /\ UNCHANGED <<now, orders, users, settings, hist, inflight, checking, sms, auth>>

\* the poster service has raised: nothing is returned, nothing is counted
GeneratePosterFails(user_id) ==
  /\ quota.pending[user_id] > 0
  /\ quota' = [quota EXCEPT !.pending[user_id] = @ - 1]
  /\ last' = Did("generate_poster", user_id, "HTTP_500_INTERNAL_SERVER_ERROR")
  /\ UNCHANGED <<now, orders, users, settings, hist, inflight, checking, sms, auth>>

\* time passes for the SMS service
SmsTick(d) ==
  /\ sms.ticks < MaxSmsTicks
  /\ sms' = [sms EXCEPT !.clock = @ + d, !.ticks = @ + 1]
  /\ last' = Did("tick", NoneS, "None")
  /\ UNCHANGED <<now, orders, users, settings, hist, inflight, checking, quota, auth>>

\* SMSService.send_code(phone) at the current time
SendCode(phone, code, sent) ==
  /\ LET r == send_code(sms, phone, sms.clock, code, sent) IN
       /\ sms' = r.sms
       /\ last' = Read("send_code", phone, "None",
                       <<IF r.success THEN "True" ELSE "False",
                         ToString(r.cooldown_remaining)>>)
  /\ UNCHANGED <<now, orders, users, settings, hist, inflight, checking, quota, auth>>

RegisterWithPhone(phone, code) ==
  /\ Len(auth.refresh_tokens) < MaxTokens
  /\ LET r == register_with_phone(auth, sms, phone, code, sms.clock) IN
       /\ auth' = r.auth
       /\ sms' = r.sms
       /\ last' = Did("register_with_phone", phone, r.error)
  /\ UNCHANGED <<now, orders, users, settings, hist, inflight, checking, quota>>

LoginWithPhone(phone, code) ==
  /\ Len(auth.refresh_tokens) < MaxTokens
  /\ LET r == login_with_phone(auth, sms, phone, code, sms.clock) IN
       /\ auth' = r.auth
       /\ sms' = r.sms
       /\ last' = Did("login_with_phone", phone, r.error)
  /\ UNCHANGED <<now, orders, users, settings, hist, inflight, checking, quota>>

RefreshToken(token) ==
  /\ LET r == refresh_token(auth, token, sms.clock) IN
       /\ Len(auth.refresh_tokens) < MaxTokens \/ r.error # "None"
       /\ auth' = r.auth
       /\ last' = Did("refresh_token", ToString(token), r.error)
  /\ UNCHANGED <<now, orders, users, settings, hist, inflight, checking, quota, sms>>

Logout(token) ==
  /\ LET r == logout(auth, token, sms.clock) IN
       /\ auth' = [r.auth EXCEPT !.logged_out =
                     IF token \in 1..Len(auth.refresh_tokens)
                     THEN @ \cup {token} ELSE @]
       /\ last' = Read("logout", ToString(token), "None",
                       <<IF r.revoked THEN "True" ELSE "False">>)
  /\ UNCHANGED <<now, orders, users, settings, hist, inflight, checking, quota, sms>>

\* the body a callback endpoint answers with: success, message
CallbackResponse(success, error_message) ==
  IF success THEN <<"true", "success">> ELSE <<"false", error_message>>

\* what a call of process_callback leaves behind; op names the caller, who is
\* an endpoint, which answers the network, or another caller
Callback(op, method, data, user, crypto_ok) ==
  /\ LET r == process_callback(orders, users, now, settings, method, data,
                               user, crypto_ok) IN
       /\ orders' = r.orders
       /\ users' = r.users
       /\ last' = Read(op, data.order_id, r.error,
                       IF op = "callback_endpoint"
                       THEN CallbackResponse(r.success, r.error)
                       ELSE <<>>)
       /\ hist' = IF r.verified
                  THEN Recorded(hist, orders, data.order_id, r.paid, r.upgraded,
                                IF r.upgraded THEN users[user] ELSE NoMembership)
                  ELSE hist
  /\ UNCHANGED <<now, settings, checking, quota, sms, auth>>

\* PaymentService.process_callback called with the user object at hand
ProcessCallback(method, data, user, crypto_ok) ==
  /\ Callback("process_callback", method, data, user, crypto_ok)
  /\ UNCHANGED <<inflight, checking, quota, sms, auth>>

\* alipay_callback, wechat_callback, unionpay_callback: once the body is
\* read the handler calls process_callback with user=None
CallbackEndpoint(method, data, crypto_ok) ==
  /\ Callback("callback_endpoint", method, data, NoUser, crypto_ok)
  /\ UNCHANGED <<inflight, checking, quota, sms, auth>>

\* whether the RSA check of a callback runs without an exception: only the
\* alipay gateway with a configured public key runs one
CryptoOutcomes(method) ==
  IF method = "alipay" /\ settings.alipay_public_key THEN BOOLEAN ELSE {TRUE}

\* the ids a caller presents: those of the orders there are, or an unknown one
AnyId == DOMAIN orders \cup {UnknownId}

Next ==
  \/ Tick
  \/ \E u \in Buyers, p \in PlansOffered, m \in PaymentMethod : CreateOrder(1, u, p, m)
  \/ \E o \in AnyId : GetOrderStatus(o)
  \/ \E o \in AnyId, e \in ExtIds \cup {NoneS} : MarkOrderPaid(o, e)
  \/ \E o \in AnyId : MarkOrderFailed(o)
  \/ \E o \in AnyId, e \in ExtIds \cup {NoneS} :
       \E u \in UserArgs(orders, o) : ProcessPaymentSuccess(o, e, u)
  \/ \E m \in PaymentMethod : \E d \in Payloads(m, AnyId), ok \in CryptoOutcomes(m) :
       \E u \in OwnerArgs(orders, d.order_id) : ProcessCallback(m, d, u, ok)
  \/ \E m \in PaymentMethod : \E d \in Payloads(m, AnyId), ok \in CryptoOutcomes(m) :
       CallbackEndpoint(m, d, ok)

Spec == Init /\ [][Next]_vars

\* ------------------------------------------------- concurrent deliveries
\* The callback handlers are coroutines: a handler awaits the body of its
\* request (request.form(), request.json()), and other requests are served
\* meanwhile; from there to its return it awaits nothing.  inflight holds
\* the requests whose body is being read; raced records that another delivery
\* for the same order was handled while this one was in flight.

\* the success callback the network sends for an order it has been paid for
NetworkPayloads(os, order_id) ==
  LET m == os[order_id].method IN
  {[order_id |-> order_id, status |-> st, ext |-> e,
    amount |-> os[order_id].amount,
    sign |-> NetworkSign(m, order_id, st, e, os[order_id].amount)] :
     st \in SuccessCodes[m], e \in ExtIds}

Remove(q, i) == [j \in 1..(Len(q) - 1) |-> IF j < i THEN q[j] ELSE q[j + 1]]

\* the requests left in flight once request i has been handled
AfterResume(q, i) ==
  LET rest == Remove(q, i) IN
  [j \in 1..Len(rest) |->
     IF rest[j].data.order_id = q[i].data.order_id
     THEN [rest[j] EXCEPT !.raced = TRUE]
     ELSE rest[j]]

\* a callback request arrives: the handler starts and awaits the body
ReceiveCallback(order_id, data) ==
  /\ Len(inflight) < MaxInflight
  /\ inflight' = Append(inflight, [method |-> orders[order_id].method,
                                    data |-> data, raced |-> FALSE])
  /\ UNCHANGED <<now, orders, users, settings, last, hist, checking, quota, sms, auth>>

\* the body has been read: the rest of the handler runs to its return
ResumeCallback(i, crypto_ok) ==
  /\ Callback("callback_endpoint", inflight[i].method, inflight[i].data, NoUser,
              crypto_ok)
  /\ inflight' = AfterResume(inflight, i)

NextConcurrent ==
  \/ Tick
  \/ \E u \in Buyers, p \in PlansOffered, m \in PaymentMethod : CreateOrder(1, u, p, m)
  \/ \E o \in DOMAIN orders : GetOrderStatus(o)
  \/ \E o \in DOMAIN orders : MarkOrderFailed(o)
  \/ \E o \in DOMAIN orders : \E d \in NetworkPayloads(orders, o) : ReceiveCallback(o, d)
  \/ \E i \in 1..Len(inflight) : \E ok \in CryptoOutcomes(inflight[i].method) :
       ResumeCallback(i, ok)

SpecConcurrent == Init /\ [][NextConcurrent]_vars

\* the server keeps running: a request that can be served, a handler that
\* can resume, is served or resumed in the end
SpecConcurrentFair == SpecConcurrent /\ WF_vars(NextConcurrent)

\* -------------------------------------------- the API, as clients see it
\* orders are created, their status is polled by any logged-in user, and the
\* gateways deliver their callbacks
NextApi ==
  \/ Tick
  \/ \E u \in Buyers, p \in PlansOffered, m \in PaymentMethod : CreateOrder(1, u, p, m)
  \/ \E o \in AnyId, u \in Users : GetOrderStatusEndpoint(o, u)
  \/ \E o \in DOMAIN orders : \E d \in NetworkPayloads(orders, o) : ReceiveCallback(o, d)
  \/ \E i \in 1..Len(inflight) : \E ok \in CryptoOutcomes(inflight[i].method) :
       ResumeCallback(i, ok)

SpecApi == Init /\ [][NextApi]_vars

\* ------------------------------------------ initiation at the gateways
\* the settings of a deployment: each credential is set or not (all are ""
\* by default), the Alipay private key is a key or not
GatewaySettings ==
  [alipay_app_id : BOOLEAN, alipay_private_key : KeySettings,
   alipay_public_key : BOOLEAN, wechat_app_id : BOOLEAN,
   wechat_mch_id : BOOLEAN, unionpay_merchant_id : BOOLEAN]

InitGateways ==
  /\ now = 0
  /\ orders = NoOrders
  /\ users = [u \in Users |-> NewUser]
  /\ settings \in GatewaySettings
  /\ last = Did("init", NoneS, "None")
  /\ hist = [o \in OrderIds |-> NoHistory]
  /\ inflight = <<>>
  /\ checking = NoCheck
  /\ quota = NoQuota
  /\ sms = NoSms
  /\ auth = NoAuth

NextGateways ==
  \/ Tick
  \/ \E u \in Buyers, p \in PlansOffered, m \in PaymentMethod :
       \E signed \in SignOutcomes(settings.alipay_private_key) :
         CreateOrderWithPayment(1, u, p, m, signed)
  \/ \E u \in Buyers, p \in PlansOffered, m \in PaymentMethod :
       \E signed \in SignOutcomes(settings.alipay_private_key) :
         CreateOrderEndpoint(1, u, p, m, signed)
  \/ \E o \in AnyId, u \in Users : GetOrderStatusEndpoint(o, u)
  \/ \E o \in DOMAIN orders : \E d \in NetworkPayloads(orders, o) :
       \E ok \in CryptoOutcomes(orders[o].method) :
         CallbackEndpoint(orders[o].method, d, ok)

SpecGateways == InitGateways /\ [][NextGateways]_vars

\* ------------------------------------- the order store, read and written
\* the status filters a caller of get_user_orders passes
StatusFilters == {NoneS, "pending", "paid"}

\* the methods the buyers of this scenario choose; they buy twice
MethodsChosen == {"alipay", "unionpay"}

NextOrders ==
  \/ Tick
  \/ \E u \in Buyers, p \in PlansOffered, m \in MethodsChosen : CreateOrder(2, u, p, m)
  \/ \E o \in AnyId : GetOrderStatus(o)
  \/ \E o \in AnyId : GetOrder(o)
  \/ \E u \in Users, f \in StatusFilters : GetUserOrders(u, f)
  \/ \E o \in AnyId, e \in ExtIds \cup {NoneS} : MarkOrderPaid(o, e)
  \/ \E o \in AnyId : MarkOrderFailed(o)

SpecOrders == Init /\ [][NextOrders]_vars

\* ------------------------------------------------ members who buy again
\* The users are rows the payment core is handed: the buyer may hold any
\* membership already.  An expiry one window after the start is in the
\* future at first, then now, then in the past; one at datetime.max cannot be
\* extended.
InitialExpiries == {TickStep, DATETIME_MAX}

InitialMemberships ==
  {NewUser} \cup
  {[membership_tier |-> tier, membership_expiry |-> e] :
     tier \in {"basic", "professional"}, e \in InitialExpiries}

InitMembership ==
  /\ now = 0
  /\ orders = NoOrders
  /\ users \in {[u \in Users |-> IF u \in Buyers THEN m ELSE NewUser] :
                  m \in InitialMemberships}
  /\ settings \in {[alipay_public_key |-> b] : b \in BOOLEAN}
  /\ last = Did("init", NoneS, "None")
  /\ hist = [o \in OrderIds |-> NoHistory]
  /\ inflight = <<>>
  /\ checking = NoCheck
  /\ quota = NoQuota
  /\ sms = NoSms
  /\ auth = NoAuth

NextMembership ==
  \/ Tick
  \/ \E u \in Buyers, p \in PlansOffered, m \in PaymentMethod : CreateOrder(1, u, p, m)
  \/ \E o \in DOMAIN orders, e \in ExtIds :
       \E u \in UserArgs(orders, o) : ProcessPaymentSuccess(o, e, u)
  \/ \E o \in DOMAIN orders : \E d \in NetworkPayloads(orders, o) :
       \E ok \in CryptoOutcomes(orders[o].method) :
         ProcessCallback(orders[o].method, d, orders[o].user_id, ok)

SpecMembership == InitMembership /\ [][NextMembership]_vars

\* ------------------------------------------- memberships that run out
\* members buy, their orders are settled with the owner at hand, and the
\* expiry check runs, by hand on one user or from the scheduler
NextExpiry ==
  \/ Tick
  \/ \E u \in Buyers, p \in PlansOffered, m \in MethodsChosen : CreateOrder(1, u, p, m)
  \/ \E o \in DOMAIN orders, e \in ExtIds :
       ProcessPaymentSuccess(o, e, orders[o].user_id)
  \/ \E u \in Users : CheckAndDowngrade(u)
  \/ StartExpiryCheck
  \/ FinishExpiryCheck

SpecExpiry == InitMembership /\ [][NextExpiry]_vars

\* _scheduler_loop: while the scheduler runs, a check is started every
\* EXPIRY_CHECK_INTERVAL, and a check that has started comes to its end
SpecExpiryFair ==
  SpecExpiry /\ WF_vars(StartExpiryCheck) /\ WF_vars(FinishExpiryCheck)

\* ------------------------------------------------ generation requests
NextQuota ==
  \/ Tick
  \/ \E u \in Users : CheckRateLimit(u)
  \/ \E u \in Users : GeneratePoster(u)
  \/ \E u \in Users : GeneratePosterFails(u)

SpecQuota == Init /\ [][NextQuota]_vars

\* --------------------------------------------- verification code requests
NextSms ==
  \/ \E d \in SmsSteps : SmsTick(d)
  \/ \E p \in Phones, c \in Codes, sent \in BOOLEAN : SendCode(p, c, sent)

SpecSms == Init /\ [][NextSms]_vars

\* ------------------------------------------------ accounts and sessions
\* the clock advances by half the life of a refresh token
AuthSteps ==
  {(refresh_token_expire_days * SecondsPerDay * HalfSecondsPerSecond) \div 2}

\* the tokens a client can present
TokenInputs == 0..MaxTokens

NextAuth ==
  \/ \E d \in AuthSteps : SmsTick(d)
  \/ \E p \in Phones : SendCode(p, "111111", TRUE)
  \/ \E p \in PhoneInputs, c \in Codes : RegisterWithPhone(p, c)
  \/ \E p \in PhoneInputs, c \in Codes : LoginWithPhone(p, c)
  \/ \E k \in TokenInputs : RefreshToken(k)
  \/ \E k \in TokenInputs : Logout(k)

SpecAuth == Init /\ [][NextAuth]_vars

\* ================================================================ claims
\* the operations that call mark_order_paid, and what it can answer
PaidOps == {"mark_order_paid", "process_payment_success", "process_callback",
            "callback_endpoint"}
MarkPaidOutcomes == {"None", "OrderNotFoundError", "OrderExpiredError",
                     "InvalidOrderStatusError"}
CallbackOps == {"process_callback", "callback_endpoint"}

\* this step is a call of mark_order_paid on order o
PaidCallOn(o) ==
  /\ last'.op \in PaidOps
  /\ last'.order_id = o
  /\ last'.error \in MarkPaidOutcomes

PastWindow(o) == now - orders[o].created_at > ORDER_EXPIRY_MINUTES

\* C5: a mark_paid attempt on a PENDING order that is more than the expiry
\* window old raises OrderExpiredError and leaves the order EXPIRED, and an
\* EXPIRED order is EXPIRED ever after (so it is never PAID).
C5_ExpiryPrecedence ==
  [][\A o \in DOMAIN orders :
       /\ (PaidCallOn(o) /\ orders[o].status = "pending" /\ PastWindow(o))
            => (last'.error = "OrderExpiredError" /\ orders'[o].status = "expired")
       /\ orders[o].status = "expired" => orders'[o].status = "expired"]_vars

C5_Witness ==
  /\ last.op \in PaidOps
  /\ last.error = "OrderExpiredError"
  /\ last.order_id \in DOMAIN orders
  /\ orders[last.order_id].status = "expired"

\* C6: an order changes status only from PENDING, and only to PAID, FAILED
\* or EXPIRED; a new order is PENDING; no order is ever REFUNDED.
C6_StatusMachine ==
  [][/\ DOMAIN orders \subseteq DOMAIN orders'
     /\ \A o \in DOMAIN orders :
          orders'[o].status # orders[o].status
            => (orders[o].status = "pending"
                /\ orders'[o].status \in {"paid", "failed", "expired"})
     /\ \A o \in DOMAIN orders' \ DOMAIN orders : orders'[o].status = "pending"
     /\ \A o \in DOMAIN orders' : orders'[o].status # "refunded"]_vars

\* an operation was refused on an order in a terminal status
C6_Witness ==
  /\ last.op = "mark_order_failed"
  /\ last.error = "InvalidOrderStatusError"
  /\ last.order_id \in DOMAIN orders
  /\ orders[last.order_id].status \in {"paid", "failed", "expired"}

\* what process_callback returns as error_message when verify_callback
\* rejects the payload
VerifyErrors == {"Invalid signature", "Trade not successful", "Payment failed"}

\* C10: a callback that verify_callback rejects (process_callback returns its
\* error_message) changes no order and no user.
C10_RejectedCallbackChangesNothing ==
  [][(last'.op \in CallbackOps /\ last'.error \in VerifyErrors)
       => UNCHANGED <<orders, users>>]_vars

\* a callback with a bad signature was refused while an order was payable
C10_Witness ==
  /\ last.op \in CallbackOps
  /\ last.error = "Invalid signature"
  /\ last.order_id \in DOMAIN orders
  /\ orders[last.order_id].status = "pending"

\* C1 as stated: of the mark_paid calls on any order the first succeeds and
\* every later one raises InvalidOrderStatusError and leaves paid_at and the
\* external reference alone.
C1_AnyOrderFirstCallSucceeds ==
  [][\A o \in DOMAIN orders :
       PaidCallOn(o)
         => IF ~hist[o].called
            THEN last'.error = "None"
            ELSE /\ last'.error = "InvalidOrderStatusError"
                 /\ orders'[o].paid_at = orders[o].paid_at
                 /\ orders'[o].external_order_id = orders[o].external_order_id]_vars

\* C1, amended: a mark_paid call on an order that is PENDING and within its
\* window succeeds, and it is the only call that ever does; every call after
\* a success raises InvalidOrderStatusError; no step changes the paid_at or
\* the external reference of a PAID order.
C1_IdempotentSettlement ==
  [][\A o \in DOMAIN orders :
       /\ PaidCallOn(o)
            => /\ (orders[o].status = "pending" /\ ~PastWindow(o))
                    => (last'.error = "None" /\ hist[o].paid_ok = 0)
               /\ hist[o].paid_ok >= 1 => last'.error = "InvalidOrderStatusError"
       /\ hist'[o].paid_ok <= 1
       /\ orders[o].status = "paid"
            => /\ orders'[o].paid_at = orders[o].paid_at
               /\ orders'[o].external_order_id = orders[o].external_order_id]_vars

\* a call after the first success was refused
C1_Witness ==
  /\ last.op \in PaidOps
  /\ last.error = "InvalidOrderStatusError"
  /\ last.order_id \in DOMAIN orders
  /\ hist[last.order_id].paid_ok = 1
  /\ orders[last.order_id].status = "paid"

\* C7 as stated: PENDING, paid_at null and external reference null are
\* equivalent for every order.
C7_PendingIffNullFields ==
  \A o \in DOMAIN orders :
    /\ (orders[o].status = "pending") <=> (orders[o].paid_at = NoneT)
    /\ (orders[o].paid_at = NoneT) <=> (orders[o].external_order_id = NoneS)

\* C7, amended: paid_at is set exactly on the PAID orders, and only a PAID
\* order has an external reference (so a PENDING order has neither).
C7_PaidFields ==
  \A o \in DOMAIN orders :
    /\ (orders[o].status = "paid") <=> (orders[o].paid_at # NoneT)
    /\ orders[o].external_order_id # NoneS => orders[o].status = "paid"

C7_Witness ==
  \E o \in DOMAIN orders :
    /\ orders[o].status = "paid"
    /\ orders[o].paid_at # NoneT
    /\ orders[o].external_order_id # NoneS

\* the extension rule of the membership: stack on an expiry in the future,
\* else start from now
ExtensionRule(expiry, plan, t) ==
  IF expiry # NoneT /\ expiry > t
  THEN expiry + PLAN_DURATIONS[plan] * MinutesPerDay
  ELSE t + PLAN_DURATIONS[plan] * MinutesPerDay

\* C2: the callback endpoint, given a validly signed success callback for a
\* PENDING order within its window, makes the order PAID and in the same
\* step gives the owner the plan's tier and the extended expiry.
C2_CallbackUpgradesOwner ==
  [][\A m \in PaymentMethod : \A d \in Payloads(m, DOMAIN orders) :
       (/\ CallbackEndpoint(m, d, TRUE)
        /\ SignatureGenuine(m, d)
        /\ d.status \in SuccessCodes[m]
        /\ orders[d.order_id].status = "pending"
        /\ ~PastWindow(d.order_id))
         => LET o == d.order_id
                u == orders[o].user_id
            IN /\ orders'[o].status = "paid"
               /\ users'[u].membership_tier = PLAN_TIERS[orders[o].plan]
               /\ users'[u].membership_expiry =
                    ExtensionRule(users[u].membership_expiry, orders[o].plan, now)]_vars

\* C3: a delivery to the endpoint that settles a payable order applies the
\* membership adjustment, which is then applied exactly once; a delivery for
\* an order that is already PAID is refused and changes nothing.
C3_ExactlyOnceUpgrade ==
  [][\A o \in DOMAIN orders :
       (last'.op = "callback_endpoint" /\ last'.order_id = o
        /\ last'.error \in MarkPaidOutcomes)
         => /\ (orders[o].status = "pending" /\ ~PastWindow(o))
                 => (orders'[o].status = "paid" /\ hist'[o].upgrades = 1)
            /\ orders[o].status = "paid"
                 => /\ last'.error = "InvalidOrderStatusError"
                    /\ UNCHANGED <<orders, users>>
                    /\ hist'[o].upgrades = hist[o].upgrades]_vars

\* C4: a callback whose signature is missing or tampered is refused by
\* verify_callback and changes no order's status.
C4_SignatureRejection ==
  [][\A m \in PaymentMethod : \A d \in Payloads(m, DOMAIN orders) :
       \A ok \in CryptoOutcomes(m) :
         (CallbackEndpoint(m, d, ok) /\ ~SignatureGenuine(m, d))
           => /\ ~verify_callback(settings, m, d, ok).success
              /\ \A o \in DOMAIN orders : orders'[o].status = orders[o].status]_vars

\* C8: of the deliveries of an order's success callback that are in flight at
\* the same time, the one that finds the order payable settles it and applies
\* the membership adjustment; the others are refused, and the adjustment
\* stays applied once.
C8_ConcurrentDeliveriesSerialized ==
  [][\A i \in 1..Len(inflight) :
       LET o == inflight[i].data.order_id
           concurrent == \/ inflight[i].raced
                         \/ \E j \in 1..Len(inflight) :
                              j # i /\ inflight[j].data.order_id = o
       IN (/\ inflight' = AfterResume(inflight, i)
           /\ concurrent
           /\ last'.error \in MarkPaidOutcomes)
            => /\ (orders[o].status = "pending" /\ ~PastWindow(o))
                    => /\ last'.error = "None"
                       /\ hist'[o].paid_ok = 1
                       /\ hist'[o].upgrades = 1
               /\ orders[o].status = "paid"
                    => /\ last'.error = "InvalidOrderStatusError"
                       /\ hist'[o].paid_ok = 1
                       /\ hist'[o].upgrades = 1]_vars

\* C9: an order for which a mark_paid call has returned is PAID in every
\* later state, whatever mark_failed calls, status reads and further
\* deliveries are interleaved with it.
C9_PaidOrderNeverLost ==
  \A o \in DOMAIN orders : hist[o].paid_ok >= 1 => orders[o].status = "paid"

\* a further delivery was refused on the settled order, past the order's
\* window
C9_Witness ==
  /\ last.op = "callback_endpoint"
  /\ last.error = "InvalidOrderStatusError"
  /\ last.order_id \in DOMAIN orders
  /\ hist[last.order_id].paid_ok = 1
  /\ orders[last.order_id].status = "paid"
  /\ now > orders[last.order_id].created_at + ORDER_EXPIRY_MINUTES

\* C11: when the upgrade of the user raises after mark_order_paid has
\* returned, the call leaves the order PAID and the user as it was; and no
\* step takes a PAID order to another status.
C11_UpgradeFailureKeepsPaid ==
  [][\A o \in DOMAIN orders :
       /\ (last'.op \in PaidOps /\ last'.order_id = o /\ last'.error = "OverflowError")
            => /\ orders[o].status = "pending"
               /\ orders'[o].status = "paid"
               /\ users' = users
       /\ orders[o].status = "paid" => orders'[o].status = "paid"]_vars

\* the upgrade of a settled order's owner raised, and the order is PAID
C11_Witness ==
  /\ last.op \in PaidOps
  /\ last.error = "OverflowError"
  /\ last.order_id \in DOMAIN orders
  /\ orders[last.order_id].status = "paid"
  /\ hist[last.order_id].upgrades = 0

\* the owner of order o holds what the order's plan gives, by an upgrade
\* made for the order
Reflects(o) ==
  /\ o \in DOMAIN orders
  /\ hist[o].upgrades >= 1
  /\ users[orders[o].user_id].membership_tier = PLAN_TIERS[orders[o].plan]
  /\ users[orders[o].user_id].membership_expiry # NoneT

\* C12: a PAID order whose upgrade has not been applied leads to a state
\* where the owner's tier and expiry reflect the order's plan.
C12_PaidOrderReconciled ==
  \A o \in OrderIds :
    (o \in DOMAIN orders /\ orders[o].status = "paid" /\ hist[o].upgrades = 0)
      ~> Reflects(o)

\* C13: an endpoint that has handled a verified success callback for an
\* order that is PAID, whether this delivery settled it or an earlier one
\* did, answers with the success acknowledgment.
C13_SettledCallbackAcknowledged ==
  (/\ last.op = "callback_endpoint"
   /\ last.order_id \in DOMAIN orders
   /\ last.error \in {"None", "InvalidOrderStatusError"}
   /\ orders[last.order_id].status = "paid")
    => last.result = <<"true", "success">>

\* this step applies the membership adjustment of order o
Adjusts(o) == hist'[o].upgrades > hist[o].upgrades

\* C14: when the adjustment of an order is applied to an owner whose expiry
\* T is strictly in the future, the owner's new expiry is T plus the plan's
\* duration.
C14_StackingExtension ==
  [][\A o \in DOMAIN orders :
       LET u == orders[o].user_id
           T == users[u].membership_expiry
       IN (Adjusts(o) /\ T # NoneT /\ T > now)
            => users'[u].membership_expiry =
                 T + PLAN_DURATIONS[orders[o].plan] * MinutesPerDay]_vars

\* an adjustment was stacked on an expiry in the future, which differs from
\* counting from the time of settlement
C14_Witness ==
  \E o \in DOMAIN orders :
    LET u == orders[o].user_id
        D == PLAN_DURATIONS[orders[o].plan] * MinutesPerDay
    IN /\ hist[o].upgrades = 1
       /\ hist[o].before.membership_expiry > orders[o].paid_at
       /\ users[u].membership_expiry = hist[o].before.membership_expiry + D
       /\ users[u].membership_expiry # orders[o].paid_at + D

\* C15: when the adjustment of an order is applied to an owner whose expiry
\* is null or not strictly in the future, the owner's new expiry is now plus
\* the plan's duration.
C15_ResetExtension ==
  [][\A o \in DOMAIN orders :
       LET u == orders[o].user_id
           T == users[u].membership_expiry
       IN (Adjusts(o) /\ (T = NoneT \/ T <= now))
            => users'[u].membership_expiry =
                 now + PLAN_DURATIONS[orders[o].plan] * MinutesPerDay]_vars

\* an adjustment started from the time of settlement for an owner whose
\* expiry had passed
C15_Witness ==
  \E o \in DOMAIN orders :
    LET u == orders[o].user_id
        D == PLAN_DURATIONS[orders[o].plan] * MinutesPerDay
    IN /\ hist[o].upgrades = 1
       /\ hist[o].before.membership_expiry # NoneT
       /\ hist[o].before.membership_expiry < orders[o].paid_at
       /\ users[u].membership_expiry = orders[o].paid_at + D

\* C16: when the adjustment of an order is applied, the owner's tier becomes
\* the tier of the order's plan, whatever it was.
C16_TierSetUnconditionally ==
  [][\A o \in DOMAIN orders :
       Adjusts(o)
         => users'[orders[o].user_id].membership_tier = PLAN_TIERS[orders[o].plan]]_vars

\* a professional member settled an order for a basic plan and is now basic
C16_Witness ==
  \E o \in DOMAIN orders :
    /\ hist[o].upgrades = 1
    /\ hist[o].before.membership_tier = "professional"
    /\ PLAN_TIERS[orders[o].plan] = "basic"
    /\ users[orders[o].user_id].membership_tier = "basic"

\* C17: after a read of an order's status (get_order_status, get_order,
\* get_user_orders) no order that is past its window has been reported as
\* PENDING: the read has made it EXPIRED.
C17_NoReadReportsStalePending ==
  /\ (last.op \in {"get_order_status", "get_order"}
      /\ last.order_id \in DOMAIN orders
      /\ PastWindow(last.order_id))
       => (last.result # <<"pending">>
           /\ orders[last.order_id].status # "pending")
  /\ last.op = "get_user_orders"
       => \A i \in 1..Len(last.result) :
            ~(orders[last.result[i]].status = "pending" /\ PastWindow(last.result[i]))

\* C18: mark_failed on a PENDING order makes it FAILED and changes nothing
\* else of it; on an order in any other status it raises
\* InvalidOrderStatusError and leaves the order as it was.
C18_MarkFailedOnlyFromPending ==
  [][\A o \in DOMAIN orders :
       (last'.op = "mark_order_failed" /\ last'.order_id = o)
         => IF orders[o].status = "pending"
            THEN /\ last'.error = "None"
                 /\ orders'[o] = [orders[o] EXCEPT !.status = "failed"]
            ELSE /\ last'.error = "InvalidOrderStatusError"
                 /\ orders'[o] = orders[o]]_vars

\* mark_failed was refused on a PAID order
C18_Witness ==
  /\ last.op = "mark_order_failed"
  /\ last.error = "InvalidOrderStatusError"
  /\ last.order_id \in DOMAIN orders
  /\ orders[last.order_id].status = "paid"
  /\ orders[last.order_id].paid_at # NoneT

\* C19: create_order(user_id, plan, method) adds one order under an id that
\* had none: PENDING, for that user, plan and method, with the catalog price
\* of the plan as amount, no paid_at, no external reference and created_at
\* now; the orders there were stay as they are.
C19_CreateYieldsPendingOrder ==
  [][\A u \in Buyers, p \in PlansOffered, m \in MethodsChosen :
       CreateOrder(2, u, p, m)
         => \E o \in DOMAIN orders' \ DOMAIN orders :
              /\ DOMAIN orders' = DOMAIN orders \cup {o}
              /\ last'.order_id = o
              /\ orders'[o] = [user_id |-> u, plan |-> p, method |-> m,
                               amount |-> PLAN_PRICES[p], status |-> "pending",
                               external_order_id |-> NoneS, paid_at |-> NoneT,
                               created_at |-> now]
              /\ \A x \in DOMAIN orders : orders'[x] = orders[x]]_vars

\* a yearly professional order was created some time after the start, next
\* to an order that had been paid
C19_Witness ==
  /\ last.op = "create_order"
  /\ last.order_id \in DOMAIN orders
  /\ \E x \in DOMAIN orders : x # last.order_id /\ orders[x].status = "paid"
  /\ now > 0
  /\ orders[last.order_id].created_at = now
  /\ orders[last.order_id].status = "pending"
  /\ orders[last.order_id].plan = "pro_yearly"
  /\ orders[last.order_id].amount = 99900

\* C20: mark_order_paid on a PENDING order within its window returns, makes
\* the order PAID, stores the external reference it was given and sets
\* paid_at to the time of the call; the order's other fields stay.
C20_SuccessfulPaymentFields ==
  [][\A o \in DOMAIN orders, e \in ExtIds \cup {NoneS} :
       (MarkOrderPaid(o, e) /\ orders[o].status = "pending" /\ ~PastWindow(o))
         => /\ last'.error = "None"
            /\ orders'[o] = [orders[o] EXCEPT !.status = "paid",
                                              !.external_order_id = e,
                                              !.paid_at = now]]_vars

\* an order was paid at the very end of its window, with the gateway's reference
C20_Witness ==
  /\ last.op = "mark_order_paid"
  /\ last.error = "None"
  /\ last.order_id \in DOMAIN orders
  /\ orders[last.order_id].status = "paid"
  /\ orders[last.order_id].external_order_id \in ExtIds
  /\ orders[last.order_id].paid_at = now
  /\ now = orders[last.order_id].created_at + ORDER_EXPIRY_MINUTES

\* C21: a status query by a user for an order of another user is answered
\* as the same query for an id no order has (404, ORDER_NOT_FOUND), and it
\* leaves the orders as they were.
C21_ForeignOrderLooksAbsent ==
  [][\A o \in DOMAIN orders, u \in Users :
       (orders[o].user_id # u /\ GetOrderStatusEndpoint(o, u))
         => LET absent == api_get_order_status(orders, now, UnknownId, u) IN
            /\ last'.result = absent.response
            /\ last'.error = absent.error
            /\ last'.result = HTTPNotFound
            /\ orders' = orders]_vars

\* another user has asked for an order that is past its window and still
\* PENDING, which a query by its owner would have made EXPIRED
C21_Witness ==
  /\ last.op = "get_order_status_endpoint"
  /\ last.order_id \in DOMAIN orders
  /\ last.error = "HTTP_404_NOT_FOUND"
  /\ PastWindow(last.order_id)
  /\ orders[last.order_id].status = "pending"

\* C22: payment initiation at a gateway never raises: it returns a result,
\* and a result with ok=false carries an error message.
C22_InitiationNeverRaises ==
  last.op = "create_order_with_payment"
    => /\ last.error = "None"
       /\ last.result[1] = "false" => last.result[3] # NoneS

\* C23: when the owner polls the status of an order that the gateway holds
\* as paid (its success notification is on its way, not handled yet), the
\* answer says PAID, as a query of the gateway would.
C23_StatusPollReflectsGateway ==
  [][\A o \in DOMAIN orders :
       (/\ \E i \in 1..Len(inflight) : inflight[i].data.order_id = o
        /\ GetOrderStatusEndpoint(o, orders[o].user_id))
         => (last'.error = "None" /\ last'.result[3] = "paid")]_vars

C25_SettledUserNotDowngraded ==
  [][\A u \in Users :
       (/\ \E o \in DOMAIN orders : orders[o].user_id = u /\ hist[o].upgrades > 0
        /\ users[u].membership_tier # "free"
        /\ users[u].membership_expiry > now)
         => users'[u].membership_tier # "free"]_vars

\* C26: a user's expiry is null only if the user's tier is FREE: every
\* BASIC or PROFESSIONAL user has an expiry, whatever registrations,
\* settlements and downgrades have happened.
C26_PaidTierHasExpiry ==
  \A u \in Users :
    users[u].membership_tier # "free" => users[u].membership_expiry # NoneT

\* a user who registered as FREE without an expiry holds a paid tier after a
\* settlement
C26_Witness ==
  \E o \in DOMAIN orders :
    /\ hist[o].upgrades > 0
    /\ hist[o].before = NewUser
    /\ users[orders[o].user_id].membership_tier # "free"
    /\ users[orders[o].user_id].membership_expiry # NoneT

\* C27: orders are never deleted and ids never reused: an order that exists
\* is there after every step, under its id, as the order it was created as,
\* and create_order issues an id that no order has.
C27_OrdersKeptIdsFresh ==
  [][/\ \A o \in DOMAIN orders :
          /\ o \in DOMAIN orders'
          /\ orders'[o].user_id = orders[o].user_id
          /\ orders'[o].created_at = orders[o].created_at
     /\ \A u \in Buyers, p \in PlansOffered, m \in MethodsChosen :
          CreateOrder(2, u, p, m)
            => /\ last'.order_id \notin DOMAIN orders
               /\ DOMAIN orders' = DOMAIN orders \cup {last'.order_id}]_vars

\* a second order has been created after the first one was settled
C27_Witness ==
  /\ last.op = "create_order"
  /\ last.order_id = OrderIdSeq[2]
  /\ OrderIdSeq[1] \in DOMAIN orders
  /\ orders[OrderIdSeq[1]].status = "paid"
  /\ orders[OrderIdSeq[1]].created_at < orders[OrderIdSeq[2]].created_at

\* C28: no step changes the user_id, plan, method, amount or created_at of
\* an order that exists (its id is its key), and a step changes no field of
\* an order other than the one the operation was given.
C28_OrderFrame ==
  [][\A o \in DOMAIN orders :
       /\ orders'[o].user_id = orders[o].user_id
       /\ orders'[o].plan = orders[o].plan
       /\ orders'[o].method = orders[o].method
       /\ orders'[o].amount = orders[o].amount
       /\ orders'[o].created_at = orders[o].created_at
       /\ last'.order_id # o => orders'[o] = orders[o]]_vars

\* the older of two orders has been settled past the window of neither,
\* then the younger has been read past its window and found EXPIRED
C28_Witness ==
  /\ DOMAIN orders = OrderIds
  /\ last.op = "get_order_status"
  /\ last.order_id = OrderIdSeq[2]
  /\ orders[OrderIdSeq[2]].status = "expired"
  /\ orders[OrderIdSeq[1]].status = "paid"

\* C29: a successful payment processed without a user object makes the
\* order PAID and upgrades no user: the users are as they were, and so is
\* every other order.
C29_NoUserOnlyOrderUpdated ==
  [][\A o \in DOMAIN orders, e \in ExtIds \cup {NoneS} :
       (ProcessPaymentSuccess(o, e, NoUser) /\ last'.error = "None")
         => /\ orders'[o] = [orders[o] EXCEPT !.status = "paid",
                                              !.external_order_id = e,
                                              !.paid_at = now]
            /\ \A p \in DOMAIN orders \ {o} : orders'[p] = orders[p]
            /\ users' = users
            /\ hist'[o].upgrades = hist[o].upgrades]_vars

\* an order has been paid through process_payment_success and its owner is
\* FREE as before: no user object was passed
C29_Witness ==
  /\ last.op = "process_payment_success"
  /\ last.error = "None"
  /\ last.order_id \in DOMAIN orders
  /\ orders[last.order_id].status = "paid"
  /\ hist[last.order_id].upgrades = 0
  /\ users[orders[last.order_id].user_id] = NewUser

\* C30: check_and_downgrade_if_expired makes the user FREE and returns True
\* exactly when the tier is not FREE, the expiry is set and now is later than
\* the expiry; otherwise it returns False and leaves the user as it was.  A
\* second call after a downgrade returns False.
C30_DowngradeExactlyWhenExpired ==
  [][\A u \in Users :
       CheckAndDowngrade(u)
         => LET due == /\ users[u].membership_tier # "free"
                       /\ users[u].membership_expiry # NoneT
                       /\ now > users[u].membership_expiry
            IN /\ due => /\ last'.result = <<"True">>
                         /\ users'[u].membership_tier = "free"
               /\ ~due => /\ last'.result = <<"False">>
                          /\ users'[u] = users[u]
               /\ users'[u].membership_expiry = users[u].membership_expiry
               /\ \A v \in Users \ {u} : users'[v] = users[v]
               /\ check_and_downgrade_if_expired(users'[u], now).result = FALSE]_vars

\* a member whose expiry has passed has just been downgraded by the call
C30_Witness ==
  /\ last.op = "check_and_downgrade_if_expired"
  /\ last.result = <<"True">>
  /\ users[last.order_id].membership_tier = "free"
  /\ now > users[last.order_id].membership_expiry

\* C31: a FREE user never obtains more than 5 generations in a day: the
\* usage counted for the user's day, one per poster answer, stays at 5 or
\* below, whatever the interleaving of the requests.
C31_FreeUserAtMostFive ==
  \A u \in Users :
    users[u].membership_tier = "free"
      => StorageGet(quota.data, now, UserKey(u, now)) <= RATE_LIMIT_CONFIG["free"]

\* C32: a send_code for a phone less than 60 seconds after the last request
\* that was let through for it is rejected with a positive cooldown; one at
\* 60 seconds or later (or the first one) is let through; and the request
\* changes nothing that is kept for another phone.
C32_CooldownPerPhone ==
  [][\A p \in Phones :
       (last'.op = "send_code" /\ last'.order_id = p)
         => LET last_send == sms.last_send_time[p]
                within == /\ last_send # NoneT
                          /\ sms.clock - last_send
                               < RATE_LIMIT_SECONDS * HalfSecondsPerSecond
            IN /\ within => /\ last'.result[1] = "False"
                            /\ last'.result[2] # "0"
                            /\ sms' = sms
               /\ ~within => sms'.last_send_time[p] = sms.clock
               /\ \A q \in Phones \ {p} :
                    /\ sms'.last_send_time[q] = sms.last_send_time[q]
                    /\ sms'.codes[q] = sms.codes[q]]_vars

\* C33: once logout has been called with a refresh token, every later
\* refresh with that token is rejected with TokenRevokedError and every later
\* logout with it returns False.
C33_LoggedOutTokenRevoked ==
  [][\A k \in auth.logged_out :
       /\ (last'.op = "refresh_token" /\ last'.order_id = ToString(k))
            => last'.error = "TokenRevokedError"
       /\ (last'.op = "logout" /\ last'.order_id = ToString(k))
            => last'.result = <<"False">>]_vars

\* C33 (amended): once logout has been called with a refresh token, every
\* later refresh with that token fails and issues nothing, with
\* TokenRevokedError while the token has not reached its own expiry and with
\* TokenExpiredError from then on, and every later logout with it returns
\* False.
C33_LoggedOutTokenRejected ==
  [][\A k \in auth.logged_out :
       /\ (last'.op = "refresh_token" /\ last'.order_id = ToString(k))
            => /\ last'.error =
                    IF auth.refresh_tokens[k].expires_at <= sms.clock
                    THEN "TokenExpiredError" ELSE "TokenRevokedError"
               /\ auth' = auth
       /\ (last'.op = "logout" /\ last'.order_id = ToString(k))
            => last'.result = <<"False">>]_vars

\* a refresh with a logged-out token was rejected as revoked after another
\* token had been issued
C33_Witness ==
  /\ last.op = "refresh_token"
  /\ last.error = "TokenRevokedError"
  /\ \E k \in auth.logged_out :
       /\ last.order_id = ToString(k)
       /\ Len(auth.refresh_tokens) > k

\* C34: no phone number ever has more than one account, and a registration
\* with a phone number that is already registered raises
\* PhoneAlreadyExistsError and creates no user (and nothing else).
C34_OneAccountPerPhone ==
  [][/\ \A p \in Phones :
          Cardinality({i \in 1..Len(auth'.users) : auth'.users[i].phone = p})
            <= 1
     /\ \A p \in Phones :
          (/\ last'.op = "register_with_phone"
           /\ last'.order_id = p
           /\ auth.users_by_phone[p] # NoUserId)
            => /\ last'.error = "PhoneAlreadyExistsError"
               /\ auth' = auth
               /\ sms' = sms]_vars

\* a registration with the right code was rejected since the phone has an
\* account
C34_Witness ==
  /\ last.op = "register_with_phone"
  /\ last.error = "PhoneAlreadyExistsError"
  /\ \E p \in Phones :
       /\ last.order_id = p
       /\ auth.users_by_phone[p] # NoUserId
       /\ verify_code(sms, p, "111111", sms.clock).success

\* C40: a refresh with a token that a successful refresh has revoked (no
\* logout was called with it) is rejected with TokenRevokedError.
C40_UsedTokenRevoked ==
  [][\A k \in 1..Len(auth.refresh_tokens) :
       (/\ last'.op = "refresh_token"
        /\ last'.order_id = ToString(k)
        /\ auth.refresh_tokens[k].is_revoked
        /\ k \notin auth.logged_out)
         => last'.error = "TokenRevokedError"]_vars

\* C40 (amended): a successful refresh revokes the token presented and
\* issues one new refresh token, which a refresh accepts; a refresh with a
\* revoked token issues nothing and is rejected, with TokenRevokedError
\* while the token has not reached its own expiry and with TokenExpiredError
\* from then on, so no token yields a second successful refresh.
C40_RefreshRotation ==
  [][\A k \in 1..Len(auth.refresh_tokens) :
       (last'.op = "refresh_token" /\ last'.order_id = ToString(k))
         => /\ last'.error = "None"
                 => /\ ~auth.refresh_tokens[k].is_revoked
                    /\ auth'.refresh_tokens[k].is_revoked
                    /\ Len(auth'.refresh_tokens) = Len(auth.refresh_tokens) + 1
                    /\ refresh_token(auth', Len(auth'.refresh_tokens),
                                     sms.clock).error = "None"
                    /\ refresh_token(auth', k, sms.clock).error
                         = "TokenRevokedError"
            /\ auth.refresh_tokens[k].is_revoked
                 => /\ last'.error =
                         IF auth.refresh_tokens[k].expires_at <= sms.clock
                         THEN "TokenExpiredError" ELSE "TokenRevokedError"
                    /\ auth' = auth]_vars

\* the token of a successful refresh was presented again and rejected as
\* revoked
C40_Witness ==
  /\ last.op = "refresh_token"
  /\ last.error = "TokenRevokedError"
  /\ \E k \in 1..Len(auth.refresh_tokens) :
       /\ last.order_id = ToString(k)
       /\ k \notin auth.logged_out
       /\ auth.refresh_tokens[k].is_revoked

\* C35: mark_order_paid on a stored order that is more than 30 minutes old
\* moves the order to EXPIRED and raises OrderExpiredError, whatever the
\* status of the order: the window is looked at before the status.
C35_ExpiryBeforeStatus ==
  [][\A o \in DOMAIN orders :
       (/\ last'.op = "mark_order_paid"
        /\ last'.order_id = o
        /\ now > orders[o].created_at + ORDER_EXPIRY_MINUTES)
         => /\ last'.error = "OrderExpiredError"
            /\ orders'[o].status = "expired"]_vars

\* C35 (amended): mark_order_paid raises OrderNotFoundError for an unknown
\* id; for a stored order that is PENDING and more than 30 minutes old it
\* moves the order to EXPIRED and raises OrderExpiredError; for a stored
\* order that is not PENDING it raises InvalidOrderStatusError and changes
\* nothing, however old the order is.
C35_ExistenceExpiryStatus ==
  [][\A o \in AnyId :
       (last'.op = "mark_order_paid" /\ last'.order_id = o)
         => IF o \notin DOMAIN orders
            THEN last'.error = "OrderNotFoundError" /\ orders' = orders
            ELSE IF orders[o].status # "pending"
            THEN last'.error = "InvalidOrderStatusError" /\ orders' = orders
            ELSE IF now > orders[o].created_at + ORDER_EXPIRY_MINUTES
            THEN /\ last'.error = "OrderExpiredError"
                 /\ orders' = [orders EXCEPT ![o].status = "expired"]
            ELSE last'.error = "None"]_vars

\* mark_order_paid met an order that is settled and older than the window
C35_Witness ==
  /\ last.op = "mark_order_paid"
  /\ last.error = "InvalidOrderStatusError"
  /\ last.order_id \in DOMAIN orders
  /\ orders[last.order_id].status = "paid"
  /\ now > orders[last.order_id].created_at + ORDER_EXPIRY_MINUTES

\* C36: when a callback that passes the signature check reports that the
\* payment failed, and the order it names is PENDING, the order moves to
\* FAILED and no user is changed.
C36_FailureCallbackFailsOrder ==
  [][\A o \in DOMAIN orders :
       (/\ last'.op \in CallbackOps
        /\ last'.order_id = o
        /\ last'.error \in {"Trade not successful", "Payment failed"}
        /\ orders[o].status = "pending")
         => /\ orders'[o].status = "failed"
            /\ users' = users]_vars

\* C37: a callback delivered to an endpoint moves an order to PAID only if
\* the amount the callback reports is the amount of the order and the
\* endpoint is the one of the order's payment method.
C37_PaidOnlyForOwnAmountAndMethod ==
  [][\A m \in PaymentMethod : \A d \in Payloads(m, DOMAIN orders) :
       \A ok \in CryptoOutcomes(m) :
         (/\ CallbackEndpoint(m, d, ok)
          /\ orders[d.order_id].status # "paid"
          /\ orders'[d.order_id].status = "paid")
           => /\ d.amount = orders[d.order_id].amount
              /\ m = orders[d.order_id].method]_vars

\* the gateway of the order's method refuses every initiation under the
\* settings there are
InitiationAlwaysFails(o) ==
  \A signed \in SignOutcomes(settings.alipay_private_key) :
    LET r == get_payment_url(settings, orders[o].method, signed) IN
    r.error = "None" /\ r.result[1] = "false"

\* C38: when the initiation at the gateway fails, the create-order endpoint
\* answers with an error and the order it has created stays stored, PENDING,
\* as create_order made it; such an order is settled by its success callback
\* while it is within its window and is EXPIRED when it is read past it.
C38_FailedInitiationKeepsOrder ==
  [][/\ (last'.op = "create_order_endpoint" /\ last'.error # "None")
          => /\ last'.result[1] \in {"400", "500"}
             /\ \E u \in Buyers, p \in PlansOffered, m \in PaymentMethod :
                  orders' = create_order(orders, now, u, p, m).orders
             /\ orders'[last'.order_id].status = "pending"
     /\ \A o \in DOMAIN orders :
          (orders[o].status = "pending" /\ InitiationAlwaysFails(o))
            => /\ \A d \in NetworkPayloads(orders, o) :
                    (CallbackEndpoint(orders[o].method, d, TRUE) /\ ~PastWindow(o))
                      => orders'[o].status = "paid"
               /\ (GetOrderStatusEndpoint(o, orders[o].user_id) /\ PastWindow(o))
                    => orders'[o].status = "expired"]_vars

\* an order whose initiation the gateway refused has been settled by a
\* callback
C38_Witness ==
  /\ last.op = "callback_endpoint"
  /\ last.order_id \in DOMAIN orders
  /\ orders[last.order_id].status = "paid"
  /\ InitiationAlwaysFails(last.order_id)

\* C39: mark_order_failed on an order that is still stored as PENDING though
\* it is more than 30 minutes old raises nothing and moves the order to
\* FAILED, not to EXPIRED, changing nothing else.
C39_MarkFailedIgnoresWindow ==
  [][\A o \in DOMAIN orders :
       (/\ last'.op = "mark_order_failed"
        /\ last'.order_id = o
        /\ orders[o].status = "pending"
        /\ PastWindow(o))
         => /\ last'.error = "None"
            /\ orders' = [orders EXCEPT ![o].status = "failed"]
            /\ users' = users]_vars

\* an order past its window has been failed
C39_Witness ==
  /\ last.op = "mark_order_failed"
  /\ last.error = "None"
  /\ last.order_id \in DOMAIN orders
  /\ orders[last.order_id].status = "failed"
  /\ PastWindow(last.order_id)

====
